---- MODULE Spec2Model ----
(***************************************************************************)
(* Model of the method-matching pipeline of NIL's analysis tools:          *)
(*   src/analysis/similarity_calculator.py  (SimilarityCalculator)         *)
(*   src/analysis/method_tracker.py         (MethodTracker)                *)
(*                                                                         *)
(* Similarities are integer percentages (0..100), as in the code.          *)
(* Python lists are sequences; a dict is the sequence of its values in     *)
(* insertion order (its keys are recomputed from the values).  Python      *)
(* positions are 0-based and are kept 0-based: list element i is s[i+1].   *)
(***************************************************************************)
EXTENDS Integers, Sequences, FiniteSets, TLC

\* ------------------------------------------------------------------------
\* Bounds of the model
\* ------------------------------------------------------------------------

\* Longest token sequence drawn for the similarity calculator.
MaxLen == 3

\* Largest gram_size the similarity calculator is constructed with.
MaxGram == 3

\* Token codes drawn for the similarity calculator; the token column of a
\* code_blocks file holds signed integers.
Tokens == {-2, -1, 1}

\* Most methods in one snapshot.
MaxMethods == 2

\* ------------------------------------------------------------------------
\* Program constants
\* ------------------------------------------------------------------------

\* float("inf"): the initial value of lcs[1..n]; above every list position.
Infinity == 1000000

\* Optional[X]: None is Absent, a value x is Present(x).
Absent == <<>>
Present(x) == <<x>>

\* ------------------------------------------------------------------------
\* Python helpers
\* ------------------------------------------------------------------------

Min(x, y) == IF x < y THEN x ELSE y

\* All sequences over S of length 0..n.
SeqsUpTo(S, n) == UNION {[1..k -> S] : k \in 0..n}

\* tokens[i : i + g] with 0-based i >= 0: a start beyond the end is the
\* end, a negative stop counts from the end (and is 0 when still negative),
\* a stop beyond the end is the end, and a stop before the start gives ().
Slice(tokens, i, g) ==
    LET n == Len(tokens)
        start == Min(i, n)
        stop == IF i + g < 0
                THEN (IF i + g + n < 0 THEN 0 ELSE i + g + n)
                ELSE Min(i + g, n)
    IN  [k \in 1..(stop - start) |-> tokens[start + k]]

\* hash(x) of a small int: CPython gives x, except that -1 is reserved for
\* errors, so hash(-1) is -2, the hash of -2.
int_hash(x) == IF x = -1 THEN -2 ELSE x

\* hash(ngram) of a tuple of small ints.  CPython's tuple hash is a 64-bit
\* mix of the hashes of the elements; on the windows drawn here (length <= 5,
\* tokens in -16..15) two windows have the same hash exactly when their
\* elements have the same hashes.  It is modelled by the positional code in
\* base 32 of the element hashes, with the length in front.
RECURSIVE tuple_code(_, _)
tuple_code(w, k) ==
    IF k = 0 THEN 1 ELSE tuple_code(w, k - 1) * 32 + (int_hash(w[k]) + 16)

tuple_hash(w) == tuple_code(w, Len(w))

\* ------------------------------------------------------------------------
\* SimilarityCalculator
\* ------------------------------------------------------------------------

\* create_ngrams with the last window dropped: range(len(tokens) - g).
create_ngrams_short(tokens, g) ==
    IF Len(tokens) < g
    THEN {}
    ELSE {tuple_hash(Slice(tokens, i, g)) : i \in 0..(Len(tokens) - g - 1)}

\* _create_ngrams: the set of hashes of the windows of length g.
\* range(len(tokens) - g + 1) is empty when the difference is negative.
create_ngrams(tokens, g) ==
    IF Len(tokens) < g
    THEN {}
    ELSE {tuple_hash(Slice(tokens, i, g)) : i \in 0..(Len(tokens) - g)}

\* calc_ngram_similarity counting every window of tokens_a found in
\* tokens_b, duplicates not collapsed.
calc_ngram_similarity_dup(tokens_a, tokens_b, g) ==
    IF tokens_a = <<>> \/ tokens_b = <<>>
    THEN 0
    ELSE LET ngrams_a == create_ngrams(tokens_a, g)
             ngrams_b == create_ngrams(tokens_b, g)
         IN  IF ngrams_a = {} \/ ngrams_b = {}
             THEN 0
             ELSE LET intersection ==
                          Cardinality({i \in 0..(Len(tokens_a) - g) :
                              tuple_hash(Slice(tokens_a, i, g)) \in ngrams_b})
                      min_size == Min(Cardinality(ngrams_a), Cardinality(ngrams_b))
                  IN  IF min_size > 0 THEN (intersection * 100) \div min_size ELSE 0

calc_ngram_similarity(tokens_a, tokens_b, g) ==
    IF tokens_a = <<>> \/ tokens_b = <<>>
    THEN 0
    ELSE LET ngrams_a == create_ngrams(tokens_a, g)
             ngrams_b == create_ngrams(tokens_b, g)
         IN  IF ngrams_a = {} \/ ngrams_b = {}
             THEN 0
             ELSE LET intersection == Cardinality(ngrams_a \cap ngrams_b)
                      min_size == Min(Cardinality(ngrams_a), Cardinality(ngrams_b))
                  IN  IF min_size > 0 THEN (intersection * 100) \div min_size ELSE 0

\* shorter, longer = a, b if len(a) < len(b) else b, a
hs_shorter(a, b) == IF Len(a) < Len(b) THEN a ELSE b
hs_longer(a, b) == IF Len(a) < Len(b) THEN b ELSE a

\* inverted_indices[token]: the positions of token in longer, appended while
\* i runs from m - 1 down to 0, so the list is in descending order.
\* The empty list stands for "token not in inverted_indices".
RECURSIVE inverted_from(_, _, _)
inverted_from(longer, token, i) ==
    IF i < 0
    THEN <<>>
    ELSE (IF longer[i + 1] = token THEN <<i>> ELSE <<>>)
         \o inverted_from(longer, token, i - 1)

inverted_indices(longer, token) == inverted_from(longer, token, Len(longer) - 1)

\* The array with lcs[0] = 0: a match at position 0 is never below it.
hs_initial_zero(n) == [k \in 0..n |-> IF k = 0 THEN 0 ELSE Infinity]

\* lcs = [inf] * (n + 1); lcs[0] = -1
hs_initial(n) == [k \in 0..n |-> IF k = 0 THEN -1 ELSE Infinity]

\* The binary search: the largest left in 0..n with lcs[left] < pos.
RECURSIVE hs_search(_, _, _, _)
hs_search(lcs, pos, left, right) ==
    IF left < right
    THEN LET mid == (left + right + 1) \div 2
         IN  IF lcs[mid] < pos
             THEN hs_search(lcs, pos, mid, right)
             ELSE hs_search(lcs, pos, left, mid - 1)
    ELSE left

\* The update written one entry too low: lcs[left] = pos.
hs_update_at_left(lcs, pos, n) ==
    LET left == hs_search(lcs, pos, 0, n)
    IN  IF lcs[left] < pos THEN [lcs EXCEPT ![left] = pos] ELSE lcs

\* The update for one match position: reads lcs[left + 1] only when
\* lcs[left] < pos (the chained comparison stops at its first false part).
hs_update(lcs, pos, n) ==
    LET left == hs_search(lcs, pos, 0, n)
    IN  IF lcs[left] < pos /\ pos < lcs[left + 1]
        THEN [lcs EXCEPT ![left + 1] = pos]
        ELSE lcs

\* The inner loop: the updates for positions[j..] in list order.
RECURSIVE hs_positions(_, _, _, _)
hs_positions(lcs, positions, j, n) ==
    IF j > Len(positions)
    THEN lcs
    ELSE hs_positions(hs_update(lcs, positions[j], n), positions, j + 1, n)

\* The outer loop: the tokens shorter[i..] in order.
RECURSIVE hs_tokens(_, _, _, _)
hs_tokens(lcs, shorter, longer, i) ==
    IF i > Len(shorter)
    THEN lcs
    ELSE hs_tokens(
            hs_positions(lcs, inverted_indices(longer, shorter[i]), 1, Len(shorter)),
            shorter, longer, i + 1)

\* The final scan started one entry too low: range(n - 1, -1, -1).
RECURSIVE hs_scan_down(_, _)
hs_scan_down(lcs, k) ==
    IF k < 0 THEN 0
    ELSE IF lcs[k] # Infinity THEN k ELSE hs_scan_down(lcs, k - 1)

hs_longest_below(lcs, k) == hs_scan_down(lcs, k - 1)

\* The final scan: the largest k with lcs[k] # inf (lcs[0] = -1 always is).
RECURSIVE hs_longest(_, _)
hs_longest(lcs, k) ==
    IF k < 0 THEN 0
    ELSE IF lcs[k] # Infinity THEN k ELSE hs_longest(lcs, k - 1)

hunt_szymanski_lcs(a, b) ==
    LET shorter == hs_shorter(a, b)
        longer == hs_longer(a, b)
        n == Len(shorter)
        m == Len(longer)
    IN  IF n = 0 \/ m = 0
        THEN 0
        ELSE hs_longest(hs_tokens(hs_initial(n), shorter, longer, 1), n)

\* calc_lcs_similarity dividing by len(tokens_a) instead of the minimum.
calc_lcs_similarity_by_a(tokens_a, tokens_b) ==
    IF tokens_a = <<>> \/ tokens_b = <<>>
    THEN 0
    ELSE (hunt_szymanski_lcs(tokens_a, tokens_b) * 100) \div Len(tokens_a)

calc_lcs_similarity(tokens_a, tokens_b) ==
    IF tokens_a = <<>> \/ tokens_b = <<>>
    THEN 0
    ELSE LET lcs_length == hunt_szymanski_lcs(tokens_a, tokens_b)
             min_len == Min(Len(tokens_a), Len(tokens_b))
         IN  IF min_len > 0 THEN (lcs_length * 100) \div min_len ELSE 0

\* ------------------------------------------------------------------------
\* MethodInfo, MethodMatch
\* ------------------------------------------------------------------------

\* A MethodInfo is a record with the fields file_path, method_name,
\* return_type, parameters, token_hash and token_sequence (Optional list).
\* start_line, end_line and commit_hash are left out: no matching code
\* reads them.

\* MethodInfo.signature
signature(m) == m.method_name \o ":" \o m.parameters \o ":" \o m.return_type

\* MethodInfo.full_id
full_id(m) == m.file_path \o "::" \o signature(m)

\* MethodMatch(method_t, method_t1, match_type, similarity); the similarity
\* is kept in percent: 100 is the code's 1.0 and lcs_sim is lcs_sim / 100.0.
MethodMatch(method_t, method_t1, match_type, similarity) ==
    [method_t |-> method_t, method_t1 |-> method_t1,
     match_type |-> match_type, similarity |-> similarity]

\* A snapshot is a Dict[str, MethodInfo] filled by parse_code_blocks with
\* methods[method_info.full_id] = method_info: here the sequence of its
\* values in insertion order, whose keys are their full_id.
snapshot_keys(snapshot) == {full_id(snapshot[i]) : i \in 1..Len(snapshot)}

\* snapshot[key]
snapshot_get(snapshot, key) ==
    snapshot[CHOOSE i \in 1..Len(snapshot) : full_id(snapshot[i]) = key]

\* The unmatched dict taken to be the whole snapshot.
without_matched_none(snapshot, matched) == snapshot

\* {k: v for k, v in snapshot.items() if k not in matched}
without_matched(snapshot, matched) ==
    SelectSeq(snapshot, LAMBDA m : full_id(m) \notin matched)

\* {match.method_t.full_id for match in matches}
ids_t(matches) == {full_id(matches[i].method_t) : i \in 1..Len(matches)}

\* matched_t1 collected from the before side of the matches.
ids_t1_before(matches) == {full_id(matches[i].method_t) : i \in 1..Len(matches)}

\* {match.method_t1.full_id for match in matches}
ids_t1(matches) == {full_id(matches[i].method_t1) : i \in 1..Len(matches)}

\* ------------------------------------------------------------------------
\* MethodTracker: the three matching stages
\* ------------------------------------------------------------------------

\* SimilarityCalculator(gram_size=5) in MethodTracker.__init__
TrackerGramSize == 5

\* The boundary between renamed / moved and refactored.
HighSimilarity == 90

find_exact_matches(snap_t, snap_t1) ==
    LET common == SelectSeq(snap_t, LAMBDA m : full_id(m) \in snapshot_keys(snap_t1))
    IN  [k \in 1..Len(common) |->
            MethodMatch(common[k], snapshot_get(snap_t1, full_id(common[k])),
                        "exact", 100)]

\* Every method grouped, the empty hash included.
groupable_always(method) == TRUE

\* Only methods with a hash and tokens grouped.
groupable_with_tokens(method) ==
    /\ method.token_hash # ""
    /\ method.token_sequence # Absent
    /\ Len(method.token_sequence[1]) > 0

\* "if method.token_hash:" an empty hash is not grouped.
groupable(method) == method.token_hash # ""

\* The keys of hash_to_methods in insertion order: the non-empty token_hash
\* values of methods[i..] in order of first appearance, seen excluded.
RECURSIVE hash_keys(_, _, _)
hash_keys(methods, i, seen) ==
    IF i > Len(methods)
    THEN <<>>
    ELSE LET h == methods[i].token_hash
         IN  IF groupable(methods[i]) /\ h \notin seen
             THEN <<h>> \o hash_keys(methods, i + 1, seen \cup {h})
             ELSE hash_keys(methods, i + 1, seen)

\* hash_to_methods[h]: the methods with token_hash h in insertion order.
hash_group(methods, h) ==
    SelectSeq(methods, LAMBDA m : groupable(m) /\ m.token_hash = h)

\* The pairing with methods_t1.pop() instead of pop(0): the last after
\* method of the hash is taken first.
RECURSIVE pair_last_come(_, _, _)
pair_last_come(methods_t, methods_t1, i) ==
    IF i > Len(methods_t) \/ methods_t1 = <<>>
    THEN <<>>
    ELSE <<MethodMatch(methods_t[i], methods_t1[Len(methods_t1)], "token_hash", 100)>>
         \o pair_last_come(methods_t, SubSeq(methods_t1, 1, Len(methods_t1) - 1), i + 1)

\* The first-come-first-served pairing of one hash: for method_t in
\* methods_t[i..], stop when methods_t1 is empty, else pair method_t with
\* methods_t1.pop(0).
RECURSIVE pair_first_come(_, _, _)
pair_first_come(methods_t, methods_t1, i) ==
    IF i > Len(methods_t) \/ methods_t1 = <<>>
    THEN <<>>
    ELSE <<MethodMatch(methods_t[i], Head(methods_t1), "token_hash", 100)>>
         \o pair_first_come(methods_t, Tail(methods_t1), i + 1)

\* The loop over the hashes keys[k..] of hash_to_methods_t.
RECURSIVE hash_matches_from(_, _, _, _)
hash_matches_from(keys, k, unm_t, unm_t1) ==
    IF k > Len(keys)
    THEN <<>>
    ELSE (IF hash_group(unm_t1, keys[k]) # <<>>
          THEN pair_first_come(hash_group(unm_t, keys[k]),
                               hash_group(unm_t1, keys[k]), 1)
          ELSE <<>>)
         \o hash_matches_from(keys, k + 1, unm_t, unm_t1)

find_token_hash_matches(unm_t, unm_t1) ==
    hash_matches_from(hash_keys(unm_t, 1, {}), 1, unm_t, unm_t1)

\* method.token_sequence and len(method.token_sequence) > 0
has_tokens(m) ==
    m.token_sequence # Absent /\ Len(m.token_sequence[1]) > 0

\* The lists methods_t / methods_t1 of find_similarity_matches.
with_tokens(unmatched) == SelectSeq(unmatched, has_tokens)

\* No candidate skipped as claimed.
is_claimed_never(method_id_t1, claimed_t1) == FALSE

\* Every candidate skipped once one candidate has been claimed.
is_claimed_after_first(method_id_t1, claimed_t1) == claimed_t1 # {}

\* "if method_id_t1 in matched_t1: continue"
is_claimed(method_id_t1, claimed_t1) == method_id_t1 \in claimed_t1

\* The n-gram filter left out: no candidate is skipped for its n-grams.
below_filter_off(ngram_sim, threshold) == FALSE

\* "if ngram_sim < self.ngram_threshold: continue"
below_filter(ngram_sim, threshold) == ngram_sim < threshold

\* The first candidate at the threshold taken whatever its score, as if
\* best_lcs_sim started below 0.
improves_from_below(lcs_sim, threshold, best_lcs_sim) ==
    lcs_sim >= threshold /\ (best_lcs_sim = 0 \/ lcs_sim > best_lcs_sim)

\* The best replaced by an equal score: the last of a tie wins.
improves_on_tie(lcs_sim, threshold, best_lcs_sim) ==
    lcs_sim >= threshold /\ lcs_sim >= best_lcs_sim /\ lcs_sim > 0

\* lcs_sim >= self.lcs_threshold and lcs_sim > best_lcs_sim
improves(lcs_sim, threshold, best_lcs_sim) ==
    lcs_sim >= threshold /\ lcs_sim > best_lcs_sim

\* The inner loop of find_similarity_matches over methods_t1[j..]: best is
\* best_match (Absent, or Present of the candidate and its lcs_sim) and
\* best_lcs_sim the score to beat.
RECURSIVE scan_candidates(_, _, _, _, _, _, _, _)
scan_candidates(method_t, methods_t1, j, claimed_t1, ngram_thr, lcs_thr, best, best_lcs_sim) ==
    IF j > Len(methods_t1)
    THEN best
    ELSE LET method_t1 == methods_t1[j]
             ngram_sim == calc_ngram_similarity(method_t.token_sequence[1],
                                                method_t1.token_sequence[1],
                                                TrackerGramSize)
             lcs_sim == calc_lcs_similarity(method_t.token_sequence[1],
                                            method_t1.token_sequence[1])
         IN  IF is_claimed(full_id(method_t1), claimed_t1)
             THEN scan_candidates(method_t, methods_t1, j + 1, claimed_t1,
                                  ngram_thr, lcs_thr, best, best_lcs_sim)
             ELSE IF below_filter(ngram_sim, ngram_thr)
             THEN scan_candidates(method_t, methods_t1, j + 1, claimed_t1,
                                  ngram_thr, lcs_thr, best, best_lcs_sim)
             ELSE IF improves(lcs_sim, lcs_thr, best_lcs_sim)
             THEN scan_candidates(method_t, methods_t1, j + 1, claimed_t1,
                                  ngram_thr, lcs_thr,
                                  Present([method_t1 |-> method_t1, lcs_sim |-> lcs_sim]),
                                  lcs_sim)
             ELSE scan_candidates(method_t, methods_t1, j + 1, claimed_t1,
                                  ngram_thr, lcs_thr, best, best_lcs_sim)

\* The match type with the file path comparison inverted.
similarity_match_type_inverted(method_t, method_t1, lcs_sim) ==
    IF method_t.file_path # method_t1.file_path
    THEN IF method_t.method_name = method_t1.method_name
         THEN "signature_changed"
         ELSE IF lcs_sim >= HighSimilarity THEN "renamed" ELSE "refactored"
    ELSE IF lcs_sim >= HighSimilarity THEN "moved" ELSE "refactored"

\* The match type with the boundary excluded: lcs_sim > 90.
similarity_match_type_above(method_t, method_t1, lcs_sim) ==
    IF method_t.file_path = method_t1.file_path
    THEN IF method_t.method_name = method_t1.method_name
         THEN "signature_changed"
         ELSE IF lcs_sim > HighSimilarity THEN "renamed" ELSE "refactored"
    ELSE IF lcs_sim > HighSimilarity THEN "moved" ELSE "refactored"

\* "Determine match type"
similarity_match_type(method_t, method_t1, lcs_sim) ==
    IF method_t.file_path = method_t1.file_path
    THEN IF method_t.method_name = method_t1.method_name
         THEN "signature_changed"
         ELSE IF lcs_sim >= HighSimilarity THEN "renamed" ELSE "refactored"
    ELSE IF lcs_sim >= HighSimilarity THEN "moved" ELSE "refactored"

\* The outer loop of find_similarity_matches over methods_t[k..], with its
\* sets matched_t / matched_t1 and its list matches.
RECURSIVE similarity_matches_from(_, _, _, _, _, _, _, _)
similarity_matches_from(meths_t, meths_t1, k, claimed_t, claimed_t1, matches, ngram_thr, lcs_thr) ==
    IF k > Len(meths_t)
    THEN matches
    ELSE LET method_t == meths_t[k]
             best_match == scan_candidates(method_t, meths_t1, 1, claimed_t1,
                                           ngram_thr, lcs_thr, Absent, 0)
         IN  IF full_id(method_t) \in claimed_t \/ best_match = Absent
             THEN similarity_matches_from(meths_t, meths_t1, k + 1, claimed_t,
                                          claimed_t1, matches, ngram_thr, lcs_thr)
             ELSE LET method_t1 == best_match[1].method_t1
                      lcs_sim == best_match[1].lcs_sim
                  IN  similarity_matches_from(meths_t, meths_t1, k + 1,
                          claimed_t \cup {full_id(method_t)},
                          claimed_t1 \cup {full_id(method_t1)},
                          Append(matches,
                              MethodMatch(method_t, method_t1,
                                  similarity_match_type(method_t, method_t1, lcs_sim),
                                  lcs_sim)),
                          ngram_thr, lcs_thr)

\* find_similarity_matches without its test of use_similarity.
find_similarity_matches_unguarded(unm_t, unm_t1, use_sim, ngram_thr, lcs_thr) ==
    similarity_matches_from(with_tokens(unm_t), with_tokens(unm_t1), 1,
                            {}, {}, <<>>, ngram_thr, lcs_thr)

\* find_similarity_matches of a tracker with the given configuration.
find_similarity_matches(unm_t, unm_t1, use_sim, ngram_thr, lcs_thr) ==
    IF ~use_sim
    THEN <<>>
    ELSE similarity_matches_from(with_tokens(unm_t), with_tokens(unm_t1), 1,
                                 {}, {}, <<>>, ngram_thr, lcs_thr)

\* analyze_changes of a tracker with the given configuration: the tuple
\* (all_matches, added_ids, deleted_ids) as a record.
analyze_changes(snap_t, snap_t1, use_sim, ngram_thr, lcs_thr) ==
    LET exact_matches == find_exact_matches(snap_t, snap_t1)
        exact_t == ids_t(exact_matches)
        exact_t1 == ids_t1(exact_matches)
        unm_t == without_matched(snap_t, exact_t)
        unm_t1 == without_matched(snap_t1, exact_t1)
        token_matches ==
            IF unm_t # <<>> /\ unm_t1 # <<>>
            THEN find_token_hash_matches(unm_t, unm_t1)
            ELSE <<>>
        hashed_t == exact_t \cup ids_t(token_matches)
        hashed_t1 == exact_t1 \cup ids_t1(token_matches)
        rest_t == without_matched(snap_t, hashed_t)
        rest_t1 == without_matched(snap_t1, hashed_t1)
        similarity_matches ==
            IF use_sim /\ rest_t # <<>> /\ rest_t1 # <<>>
            THEN find_similarity_matches(rest_t, rest_t1, use_sim, ngram_thr, lcs_thr)
            ELSE <<>>
        final_t == hashed_t \cup ids_t(similarity_matches)
        final_t1 == hashed_t1 \cup ids_t1(similarity_matches)
    IN  [matches |-> exact_matches \o token_matches \o similarity_matches,
         added_ids |-> snapshot_keys(snap_t1) \ final_t1,
         deleted_ids |-> snapshot_keys(snap_t) \ final_t]

\* ------------------------------------------------------------------------
\* State
\* ------------------------------------------------------------------------

VARIABLES
    \* One SimilarityCalculator and the two token sequences it is called on.
    tokens_a, tokens_b, gram_size,
    sim_pc,         \* the position in the sequence of calls below
    ngram_ab,       \* calc_ngram_similarity(tokens_a, tokens_b), or Absent
    ngram_ba,       \* calc_ngram_similarity(tokens_b, tokens_a), or Absent
    lcs_ab,         \* calc_lcs_similarity(tokens_a, tokens_b), or Absent
    lcs_ba,         \* calc_lcs_similarity(tokens_b, tokens_a), or Absent
    \* Locals of the running _hunt_szymanski_lcs(tokens_a, tokens_b).
    hs_lcs,         \* the array lcs[0..n], or Absent before it is built
    hs_i,           \* 1-based index in shorter of the token being processed
    hs_j,           \* 1-based index in inverted_indices[token] of the next pos
    hs_len,         \* the returned LCS length, or Absent
    hs_raised,      \* TRUE once lcs[left + 1] was read out of range
    \* One MethodTracker and one call analyze_changes(snapshot_t, snapshot_t1).
    use_similarity, ngram_threshold, lcs_threshold,
    snapshot_t, snapshot_t1,
    pc,             \* the position in analyze_changes
    all_matches,    \* the list all_matches
    matched_t, matched_t1,      \* the sets of matched full_ids
    unmatched_t, unmatched_t1,  \* the dicts handed to the next stage
    added_ids, deleted_ids,     \* the returned sets
    \* Locals of the running find_similarity_matches.
    methods_t, methods_t1,      \* the lists of methods with tokens
    sim_k,                      \* 1-based index in methods_t of the next method_t
    sim_matched_t, sim_matched_t1,  \* its own matched_t / matched_t1
    sim_matches,                \* its list matches
    last_scan,      \* what the last pass of its outer loop saw and chose
    \* One call track_methods(code_blocks_dir, output_dir) of the tracker.
    code_block_files,   \* the sorted code_blocks_* files, each as the
                        \* snapshot parse_code_blocks returns for it
    track_pc,           \* the position in track_methods
    curr_index,         \* 1-based index in code_block_files of curr_file
    prev_snapshot,      \* prev_snapshot, or Absent for None
    analyze_calls,      \* the calls of analyze_changes made, in order
    summary_rows,       \* the rows written to the summary after the header
    \* One UniqueCloneAnalyzer and the CSV file analyze_csv_file reads.
    csv_lines,          \* the lines of the file, each the sequence of the
                        \* fields its commas separate (empty: a blank line)
    clone_pc,           \* the position in analyze_csv_file
    line_num,           \* 1-based number of the next line
    pair_to_id,         \* self.pair_to_id: the set of its items (hash, id)
    next_id,            \* self.next_id
    processed_pairs,    \* self.processed_pairs
    error_count,        \* error_count of analyze_csv_file
    \* One MethodTracker, the objects it works on, and its calls of
    \* analyze_changes on the snapshots of code_block_files.
    heap,               \* the dicts, lists and sets: heap[ref] is the content
                        \* of the object ref
    frame,              \* the locals of the running analyze_changes and of
                        \* its find_token_hash_matches, as references
    transitions         \* the results returned, in the order of the calls

simVars == <<tokens_a, tokens_b, gram_size, sim_pc, ngram_ab, ngram_ba,
             lcs_ab, lcs_ba, hs_lcs, hs_i, hs_j, hs_len, hs_raised>>

configVars == <<use_similarity, ngram_threshold, lcs_threshold>>

snapshotVars == <<snapshot_t, snapshot_t1>>

stageVars == <<methods_t, methods_t1, sim_k, sim_matched_t, sim_matched_t1,
               sim_matches, last_scan>>

trackerVars == <<configVars, snapshotVars, pc, all_matches, matched_t,
                 matched_t1, unmatched_t, unmatched_t1, added_ids,
                 deleted_ids, stageVars>>

batchVars == <<code_block_files, track_pc, curr_index, prev_snapshot,
               analyze_calls, summary_rows>>

cloneVars == <<csv_lines, clone_pc, line_num, pair_to_id, next_id,
               processed_pairs, error_count>>

heapVars == <<heap, frame, transitions>>

vars == <<simVars, trackerVars, batchVars, cloneVars, heapVars>>

\* ------------------------------------------------------------------------
\* The similarity calculator on drawn inputs
\* ------------------------------------------------------------------------

\* No track_methods call: a single analyze_changes or the calculator runs.
BatchIdle ==
    /\ code_block_files = <<>>
    /\ track_pc = "idle"
    /\ curr_index = 0
    /\ prev_snapshot = Absent
    /\ analyze_calls = <<>>
    /\ summary_rows = <<>>

\* No analyze_csv_file call.
CloneIdle ==
    /\ csv_lines = <<>>
    /\ clone_pc = "idle"
    /\ line_num = 0
    /\ pair_to_id = {}
    /\ next_id = 1
    /\ processed_pairs = <<>>
    /\ error_count = 0

\* A reference to no object.
NoRef == 0

\* No analyze_changes is running.
IdleFrame ==
    [pc |-> "idle", pair |-> 0,
     snapshot_t |-> NoRef, snapshot_t1 |-> NoRef,
     all_matches |-> NoRef, matched_t |-> NoRef, matched_t1 |-> NoRef,
     unmatched_t |-> NoRef, unmatched_t1 |-> NoRef,
     matches |-> NoRef,
     hash_to_methods_t |-> NoRef, hash_to_methods_t1 |-> NoRef,
     hash_k |-> 0, method_i |-> 0]

\* No object and no call of analyze_changes on objects.
HeapIdle ==
    /\ heap = <<>>
    /\ frame = IdleFrame
    /\ transitions = <<>>

SimIdle ==
    /\ tokens_a = <<>> /\ tokens_b = <<>> /\ gram_size = 1
    /\ sim_pc = "idle"
    /\ ngram_ab = Absent /\ ngram_ba = Absent /\ lcs_ab = Absent /\ lcs_ba = Absent
    /\ hs_lcs = Absent /\ hs_i = 0 /\ hs_j = 0 /\ hs_len = Absent
    /\ hs_raised = FALSE

\* No tracker: the calculator is exercised on its own.
TrackerIdle ==
    /\ use_similarity = FALSE /\ ngram_threshold = 10 /\ lcs_threshold = 70
    /\ snapshot_t = <<>> /\ snapshot_t1 = <<>>
    /\ pc = "idle"
    /\ all_matches = <<>>
    /\ matched_t = {} /\ matched_t1 = {}
    /\ unmatched_t = <<>> /\ unmatched_t1 = <<>>
    /\ added_ids = {} /\ deleted_ids = {}
    /\ methods_t = <<>> /\ methods_t1 = <<>>
    /\ sim_k = 0
    /\ sim_matched_t = {} /\ sim_matched_t1 = {}
    /\ sim_matches = <<>>
    /\ last_scan = Absent

SimInit ==
    /\ TrackerIdle
    /\ BatchIdle
    /\ CloneIdle
    /\ HeapIdle
    /\ tokens_a \in SeqsUpTo(Tokens, MaxLen)
    /\ tokens_b \in SeqsUpTo(Tokens, MaxLen)
    /\ gram_size \in 1..MaxGram
    /\ sim_pc = "ngram_ab"
    /\ ngram_ab = Absent /\ ngram_ba = Absent /\ lcs_ab = Absent /\ lcs_ba = Absent
    /\ hs_lcs = Absent /\ hs_i = 0 /\ hs_j = 0 /\ hs_len = Absent
    /\ hs_raised = FALSE

hsUnchanged == UNCHANGED <<hs_lcs, hs_i, hs_j, hs_len, hs_raised>>
inputsUnchanged == UNCHANGED <<tokens_a, tokens_b, gram_size>>

\* calc_ngram_similarity(tokens_a, tokens_b)
NgramAB ==
    /\ sim_pc = "ngram_ab"
    /\ ngram_ab' = Present(calc_ngram_similarity(tokens_a, tokens_b, gram_size))
    /\ sim_pc' = "ngram_ba"
    /\ UNCHANGED <<ngram_ba, lcs_ab, lcs_ba>>
    /\ hsUnchanged /\ inputsUnchanged /\ UNCHANGED trackerVars /\ UNCHANGED batchVars /\ UNCHANGED cloneVars /\ UNCHANGED heapVars

\* calc_ngram_similarity(tokens_b, tokens_a)
NgramBA ==
    /\ sim_pc = "ngram_ba"
    /\ ngram_ba' = Present(calc_ngram_similarity(tokens_b, tokens_a, gram_size))
    /\ sim_pc' = "lcs_ba"
    /\ UNCHANGED <<ngram_ab, lcs_ab, lcs_ba>>
    /\ hsUnchanged /\ inputsUnchanged /\ UNCHANGED trackerVars /\ UNCHANGED batchVars /\ UNCHANGED cloneVars /\ UNCHANGED heapVars

\* calc_lcs_similarity(tokens_b, tokens_a)
LcsBA ==
    /\ sim_pc = "lcs_ba"
    /\ lcs_ba' = Present(calc_lcs_similarity(tokens_b, tokens_a))
    /\ sim_pc' = "lcs_ab"
    /\ UNCHANGED <<ngram_ab, ngram_ba, lcs_ab>>
    /\ hsUnchanged /\ inputsUnchanged /\ UNCHANGED trackerVars /\ UNCHANGED batchVars /\ UNCHANGED cloneVars /\ UNCHANGED heapVars

\* calc_lcs_similarity(tokens_a, tokens_b), entered: the early return for
\* an empty argument, else the call of _hunt_szymanski_lcs up to its loop.
LcsABBegin ==
    /\ sim_pc = "lcs_ab"
    /\ IF tokens_a = <<>> \/ tokens_b = <<>>
       THEN /\ lcs_ab' = Present(0)
            /\ sim_pc' = "done"
            /\ hsUnchanged
       ELSE /\ hs_lcs' = hs_initial(Len(hs_shorter(tokens_a, tokens_b)))
            /\ hs_i' = 1
            /\ hs_j' = 1
            /\ sim_pc' = "hs_loop"
            /\ UNCHANGED <<lcs_ab, hs_len, hs_raised>>
    /\ UNCHANGED <<ngram_ab, ngram_ba, lcs_ba>>
    /\ inputsUnchanged /\ UNCHANGED trackerVars /\ UNCHANGED batchVars /\ UNCHANGED cloneVars /\ UNCHANGED heapVars

\* The positions of the token being processed in ascending order, as if
\* the inverted index were built from 0 up to m - 1.
hs_current_ascending ==
    LET positions == inverted_indices(hs_longer(tokens_a, tokens_b),
                                      hs_shorter(tokens_a, tokens_b)[hs_i])
    IN  [k \in 1..Len(positions) |-> positions[Len(positions) + 1 - k]]

\* The positions list of the token being processed.
hs_current ==
    inverted_indices(hs_longer(tokens_a, tokens_b),
                     hs_shorter(tokens_a, tokens_b)[hs_i])

\* One pass of the inner loop: the binary search and the update for one pos.
\* Reading lcs[left + 1] with left = n raises IndexError and ends the call.
HsPosition ==
    /\ sim_pc = "hs_loop"
    /\ hs_i <= Len(hs_shorter(tokens_a, tokens_b))
    /\ hs_j <= Len(hs_current)
    /\ LET n == Len(hs_shorter(tokens_a, tokens_b))
           pos == hs_current[hs_j]
           left == hs_search(hs_lcs, pos, 0, n)
       IN  IF hs_lcs[left] < pos /\ left + 1 > n
           THEN /\ hs_raised' = TRUE
                /\ sim_pc' = "done"
                /\ UNCHANGED <<hs_lcs, hs_j>>
           ELSE /\ hs_lcs' = hs_update(hs_lcs, pos, n)
                /\ hs_j' = hs_j + 1
                /\ UNCHANGED <<hs_raised, sim_pc>>
    /\ UNCHANGED <<hs_i, hs_len>>
    /\ UNCHANGED <<ngram_ab, ngram_ba, lcs_ab, lcs_ba>>
    /\ inputsUnchanged /\ UNCHANGED trackerVars /\ UNCHANGED batchVars /\ UNCHANGED cloneVars /\ UNCHANGED heapVars

\* The inner loop ends (or the token is not in inverted_indices): next token.
HsNextToken ==
    /\ sim_pc = "hs_loop"
    /\ hs_i <= Len(hs_shorter(tokens_a, tokens_b))
    /\ hs_j > Len(hs_current)
    /\ hs_i' = hs_i + 1
    /\ hs_j' = 1
    /\ UNCHANGED <<hs_lcs, hs_len, hs_raised, sim_pc>>
    /\ UNCHANGED <<ngram_ab, ngram_ba, lcs_ab, lcs_ba>>
    /\ inputsUnchanged /\ UNCHANGED trackerVars /\ UNCHANGED batchVars /\ UNCHANGED cloneVars /\ UNCHANGED heapVars

\* The outer loop ends: _hunt_szymanski_lcs returns the largest finite k and
\* calc_lcs_similarity returns the percentage.
HsReturn ==
    /\ sim_pc = "hs_loop"
    /\ hs_i > Len(hs_shorter(tokens_a, tokens_b))
    /\ LET n == Len(hs_shorter(tokens_a, tokens_b))
           min_len == Min(Len(tokens_a), Len(tokens_b))
           k == hs_longest(hs_lcs, n)
       IN  /\ hs_len' = Present(k)
           /\ lcs_ab' = Present(IF min_len > 0 THEN (k * 100) \div min_len ELSE 0)
    /\ sim_pc' = "done"
    /\ UNCHANGED <<hs_lcs, hs_i, hs_j, hs_raised>>
    /\ UNCHANGED <<ngram_ab, ngram_ba, lcs_ba>>
    /\ inputsUnchanged /\ UNCHANGED trackerVars /\ UNCHANGED batchVars /\ UNCHANGED cloneVars /\ UNCHANGED heapVars

SimNext ==
    \/ NgramAB
    \/ NgramBA
    \/ LcsBA
    \/ LcsABBegin
    \/ HsPosition
    \/ HsNextToken
    \/ HsReturn

SpecSim == SimInit /\ [][SimNext]_vars

\* SimilarityCalculator(gram_size): any int is taken, the ones below 1 too.
GramSizes == -2..1

\* A calculator built with one of GramSizes and called on two sequences.
InitGram ==
    /\ TrackerIdle
    /\ BatchIdle
    /\ CloneIdle
    /\ HeapIdle
    /\ tokens_a \in SeqsUpTo(Tokens, MaxLen)
    /\ tokens_b \in SeqsUpTo(Tokens, MaxLen)
    /\ gram_size \in GramSizes
    /\ sim_pc = "ngram_ab"
    /\ ngram_ab = Absent /\ ngram_ba = Absent /\ lcs_ab = Absent /\ lcs_ba = Absent
    /\ hs_lcs = Absent /\ hs_i = 0 /\ hs_j = 0 /\ hs_len = Absent
    /\ hs_raised = FALSE

SpecGram == InitGram /\ [][SimNext]_vars

\* ------------------------------------------------------------------------
\* The snapshots and configurations drawn for analyze_changes
\* ------------------------------------------------------------------------

\* Identities.  snapshot_t draws foo and bar of x.c; snapshot_t1 draws the
\* same bar (an exact match), foo of x.c with another signature, and foo of
\* y.c, so that a pair of unmatched methods can have the same path and
\* name, the same path and another name, or another path.
FooX == [file_path |-> "x.c", method_name |-> "foo", parameters |-> ""]
BarX == [file_path |-> "x.c", method_name |-> "bar", parameters |-> ""]
FooIntX == [file_path |-> "x.c", method_name |-> "foo", parameters |-> "int"]
FooY == [file_path |-> "y.c", method_name |-> "foo", parameters |-> ""]

IdsT == {FooX, BarX}
IdsT1 == {BarX, FooIntX, FooY}

\* Contents: token_hash ("" when the column is empty) and token_sequence
\* (Absent when the file has no token column).  <<1,2,3,4,5,6>> and
\* <<1,2,9,4,5,6>> share no 5-gram (0 percent) and have an LCS of 5 of 6
\* tokens (83 percent): the n-gram filter of the default configuration
\* rejects the pair, a filter of 0 lets it reach the LCS test.
Contents ==
    { [token_hash |-> "",   token_sequence |-> Absent],
      [token_hash |-> "h1", token_sequence |-> Present(<<1, 2, 3, 4, 5, 6>>)],
      [token_hash |-> "",   token_sequence |-> Present(<<1, 2, 3, 4, 5, 6>>)],
      [token_hash |-> "h2", token_sequence |-> Present(<<1, 2, 9, 4, 5, 6>>)] }

MethodInfo(id, content) ==
    [file_path |-> id.file_path, method_name |-> id.method_name,
     return_type |-> "void", parameters |-> id.parameters,
     token_hash |-> content.token_hash,
     token_sequence |-> content.token_sequence]

Methods(ids, contents) == {MethodInfo(id, c) : id \in ids, c \in contents}

\* A dict holds one value per key.
UniqueKeys(snapshot) ==
    \A i, j \in 1..Len(snapshot) :
        full_id(snapshot[i]) = full_id(snapshot[j]) => i = j

Snapshots(ids, contents) ==
    {s \in SeqsUpTo(Methods(ids, contents), MaxMethods) : UniqueKeys(s)}

\* MethodTracker(use_similarity, ngram_threshold, lcs_threshold): the
\* defaults; the defaults with similarity matching; no n-gram filter; no
\* n-gram filter and only near-identical methods accepted.
Configs ==
    { [use_similarity |-> FALSE, ngram_threshold |-> 10, lcs_threshold |-> 70],
      [use_similarity |-> TRUE,  ngram_threshold |-> 10, lcs_threshold |-> 70],
      [use_similarity |-> TRUE,  ngram_threshold |-> 0,  lcs_threshold |-> 70],
      [use_similarity |-> TRUE,  ngram_threshold |-> 0,  lcs_threshold |-> 90] }

\* ------------------------------------------------------------------------
\* analyze_changes
\* ------------------------------------------------------------------------

\* A tracker built with one of the configurations, and analyze_changes
\* called on two snapshots of methods with the given identities and contents.
TrackerInit(ids_of_t, ids_of_t1, contents, configs) ==
    /\ SimIdle
    /\ BatchIdle
    /\ CloneIdle
    /\ HeapIdle
    /\ \E c \in configs :
          /\ use_similarity = c.use_similarity
          /\ ngram_threshold = c.ngram_threshold
          /\ lcs_threshold = c.lcs_threshold
    /\ snapshot_t \in Snapshots(ids_of_t, contents)
    /\ snapshot_t1 \in Snapshots(ids_of_t1, contents)
    /\ pc = "exact"
    /\ all_matches = <<>>
    /\ matched_t = {} /\ matched_t1 = {}
    /\ unmatched_t = <<>> /\ unmatched_t1 = <<>>
    /\ added_ids = {} /\ deleted_ids = {}
    /\ methods_t = <<>> /\ methods_t1 = <<>>
    /\ sim_k = 0
    /\ sim_matched_t = {} /\ sim_matched_t1 = {}
    /\ sim_matches = <<>>
    /\ last_scan = Absent

Init == TrackerInit(IdsT, IdsT1, Contents, Configs)

\* Step 1: find_exact_matches, the matched ids and the unmatched methods.
ExactStage ==
    /\ pc = "exact"
    /\ LET exact_matches == find_exact_matches(snapshot_t, snapshot_t1)
       IN  /\ all_matches' = all_matches \o exact_matches
           /\ matched_t' = ids_t(exact_matches)
           /\ matched_t1' = ids_t1(exact_matches)
           /\ unmatched_t' = without_matched(snapshot_t, ids_t(exact_matches))
           /\ unmatched_t1' = without_matched(snapshot_t1, ids_t1(exact_matches))
    /\ pc' = "token_hash"
    /\ UNCHANGED <<configVars, snapshotVars, added_ids, deleted_ids, stageVars>>
    /\ UNCHANGED simVars /\ UNCHANGED batchVars /\ UNCHANGED cloneVars /\ UNCHANGED heapVars

\* Step 2: find_token_hash_matches, when both sides have unmatched methods.
TokenHashStage ==
    /\ pc = "token_hash"
    /\ IF unmatched_t # <<>> /\ unmatched_t1 # <<>>
       THEN LET token_matches == find_token_hash_matches(unmatched_t, unmatched_t1)
            IN  /\ all_matches' = all_matches \o token_matches
                /\ matched_t' = matched_t \cup ids_t(token_matches)
                /\ matched_t1' = matched_t1 \cup ids_t1(token_matches)
                /\ unmatched_t' =
                     without_matched(snapshot_t, matched_t \cup ids_t(token_matches))
                /\ unmatched_t1' =
                     without_matched(snapshot_t1, matched_t1 \cup ids_t1(token_matches))
       ELSE UNCHANGED <<all_matches, matched_t, matched_t1, unmatched_t,
                        unmatched_t1>>
    /\ pc' = "similarity"
    /\ UNCHANGED <<configVars, snapshotVars, added_ids, deleted_ids, stageVars>>
    /\ UNCHANGED simVars /\ UNCHANGED batchVars /\ UNCHANGED cloneVars /\ UNCHANGED heapVars

\* Step 3, entered: find_similarity_matches is called when similarity
\* matching is enabled and both sides have unmatched methods; it builds its
\* two lists of methods with tokens.
SimilarityBegin ==
    /\ pc = "similarity"
    /\ IF use_similarity /\ unmatched_t # <<>> /\ unmatched_t1 # <<>>
       THEN /\ methods_t' = with_tokens(unmatched_t)
            /\ methods_t1' = with_tokens(unmatched_t1)
            /\ sim_k' = 1
            /\ sim_matched_t' = {}
            /\ sim_matched_t1' = {}
            /\ sim_matches' = <<>>
            /\ pc' = "sim_loop"
       ELSE /\ pc' = "residual"
            /\ UNCHANGED <<methods_t, methods_t1, sim_k, sim_matched_t,
                           sim_matched_t1, sim_matches>>
    /\ UNCHANGED last_scan
    /\ UNCHANGED <<configVars, snapshotVars, all_matches, matched_t, matched_t1,
                   unmatched_t, unmatched_t1, added_ids, deleted_ids>>
    /\ UNCHANGED simVars /\ UNCHANGED batchVars /\ UNCHANGED cloneVars /\ UNCHANGED heapVars

\* One pass of the outer loop of find_similarity_matches: the scan of the
\* unclaimed candidates for methods_t[sim_k] and the commit of the best.
SimilarityStep ==
    /\ pc = "sim_loop"
    /\ sim_k <= Len(methods_t)
    /\ LET method_t == methods_t[sim_k]
           best_match == scan_candidates(method_t, methods_t1, 1, sim_matched_t1,
                                         ngram_threshold, lcs_threshold, Absent, 0)
       IN  IF full_id(method_t) \in sim_matched_t
           THEN UNCHANGED <<sim_matches, sim_matched_t, sim_matched_t1, last_scan>>
           ELSE /\ last_scan' =
                     Present([method_t |-> method_t,
                              claimed_t1 |-> sim_matched_t1,
                              best_match |-> best_match])
                /\ IF best_match # Absent
                   THEN LET method_t1 == best_match[1].method_t1
                            lcs_sim == best_match[1].lcs_sim
                        IN  /\ sim_matches' = Append(sim_matches,
                                  MethodMatch(method_t, method_t1,
                                      similarity_match_type(method_t, method_t1, lcs_sim),
                                      lcs_sim))
                            /\ sim_matched_t' = sim_matched_t \cup {full_id(method_t)}
                            /\ sim_matched_t1' = sim_matched_t1 \cup {full_id(method_t1)}
                   ELSE UNCHANGED <<sim_matches, sim_matched_t, sim_matched_t1>>
    /\ sim_k' = sim_k + 1
    /\ UNCHANGED <<methods_t, methods_t1, pc>>
    /\ UNCHANGED <<configVars, snapshotVars, all_matches, matched_t, matched_t1,
                   unmatched_t, unmatched_t1, added_ids, deleted_ids>>
    /\ UNCHANGED simVars /\ UNCHANGED batchVars /\ UNCHANGED cloneVars /\ UNCHANGED heapVars

\* find_similarity_matches returns: analyze_changes extends all_matches and
\* the matched sets with its matches.
SimilarityEnd ==
    /\ pc = "sim_loop"
    /\ sim_k > Len(methods_t)
    /\ all_matches' = all_matches \o sim_matches
    /\ matched_t' = matched_t \cup ids_t(sim_matches)
    /\ matched_t1' = matched_t1 \cup ids_t1(sim_matches)
    /\ pc' = "residual"
    /\ UNCHANGED <<configVars, snapshotVars, unmatched_t, unmatched_t1,
                   added_ids, deleted_ids, stageVars>>
    /\ UNCHANGED simVars /\ UNCHANGED batchVars /\ UNCHANGED cloneVars /\ UNCHANGED heapVars

\* The final unmatched: added_ids, deleted_ids, and the return.
Residual ==
    /\ pc = "residual"
    /\ added_ids' = snapshot_keys(snapshot_t1) \ matched_t1
    /\ deleted_ids' = snapshot_keys(snapshot_t) \ matched_t
    /\ pc' = "done"
    /\ UNCHANGED <<configVars, snapshotVars, all_matches, matched_t, matched_t1,
                   unmatched_t, unmatched_t1, stageVars>>
    /\ UNCHANGED simVars /\ UNCHANGED batchVars /\ UNCHANGED cloneVars /\ UNCHANGED heapVars

Next ==
    \/ ExactStage
    \/ TokenHashStage
    \/ SimilarityBegin
    \/ SimilarityStep
    \/ SimilarityEnd
    \/ Residual

Spec == Init /\ [][Next]_vars

\* ------------------------------------------------------------------------
\* analyze_changes on methods with scores at and around 90 percent
\* ------------------------------------------------------------------------

\* Token sequences of ten tokens.  Against TenTokens, NineOfTen has an LCS of
\* 9 (90 percent) and EightOfTen of 8 (80 percent); NineOfTen and EightOfTen
\* have an LCS of 9 (90 percent).  Each pair shares 4 or 5 of its six
\* 5-grams, so the n-gram filter of 10 percent lets every pair through.
TenTokens == <<1, 2, 3, 4, 5, 6, 7, 8, 9, 10>>
NineOfTen == <<1, 2, 3, 4, 5, 6, 7, 8, 9, 11>>
EightOfTen == <<1, 2, 3, 4, 5, 6, 7, 8, 11, 12>>

ScoreContents ==
    { [token_hash |-> "t10", token_sequence |-> Present(TenTokens)],
      [token_hash |-> "",    token_sequence |-> Present(NineOfTen)],
      [token_hash |-> "",    token_sequence |-> Present(EightOfTen)] }

\* Similarity matching with the default thresholds, and with an LCS
\* threshold of 90 percent.
ScoreConfigs ==
    { [use_similarity |-> TRUE, ngram_threshold |-> 10, lcs_threshold |-> 70],
      [use_similarity |-> TRUE, ngram_threshold |-> 10, lcs_threshold |-> 90] }

InitScores == TrackerInit(IdsT, IdsT1, ScoreContents, ScoreConfigs)

SpecScores == InitScores /\ [][Next]_vars

\* ------------------------------------------------------------------------
\* analyze_changes on methods with few or no tokens
\* ------------------------------------------------------------------------

\* Contents: no token column but a hash; an empty token list; four tokens,
\* fewer than the gram size of 5; six tokens.  The four tokens are a
\* subsequence of the six: an LCS similarity of 100 percent with no 5-gram.
EdgeContents ==
    { [token_hash |-> "h1", token_sequence |-> Absent],
      [token_hash |-> "",   token_sequence |-> Present(<<>>)],
      [token_hash |-> "",   token_sequence |-> Present(<<1, 2, 3, 4>>)],
      [token_hash |-> "",   token_sequence |-> Present(<<1, 2, 3, 4, 5, 6>>)] }

\* The defaults; the defaults with similarity matching; no n-gram filter.
EdgeConfigs ==
    { [use_similarity |-> FALSE, ngram_threshold |-> 10, lcs_threshold |-> 70],
      [use_similarity |-> TRUE,  ngram_threshold |-> 10, lcs_threshold |-> 70],
      [use_similarity |-> TRUE,  ngram_threshold |-> 0,  lcs_threshold |-> 70] }

InitEdge == TrackerInit(IdsT, IdsT1, EdgeContents, EdgeConfigs)

SpecEdge == InitEdge /\ [][Next]_vars

\* ------------------------------------------------------------------------
\* track_methods
\* ------------------------------------------------------------------------

\* Most code_blocks_* files in the directory.
MaxSnapshots == 3

\* The keys of match_counts written to the summary.
CountedTypes ==
    {"exact", "token_hash", "renamed", "moved", "signature_changed", "refactored"}

\* Every match counted once at most: match_counts[type] = 1.
match_counts_flag(matches) ==
    [ty \in CountedTypes |->
        IF \E i \in 1..Len(matches) : matches[i].match_type = ty THEN 1 ELSE 0]

\* "Count matches by type": match_counts after the loop over the matches.
match_counts(matches) ==
    [ty \in CountedTypes |->
        Cardinality({i \in 1..Len(matches) : matches[i].match_type = ty})]

\* The row written to the summary for one pair of snapshots; a commit is
\* named by the index of its file in code_block_files.
summary_row(prev_commit, curr_commit, result, prev, curr) ==
    LET counts == match_counts(result.matches)
    IN  [snapshot_t |-> prev_commit,
         snapshot_t1 |-> curr_commit,
         exact_matches |-> counts["exact"],
         token_hash_matches |-> counts["token_hash"],
         renamed |-> counts["renamed"],
         moved |-> counts["moved"],
         signature_changed |-> counts["signature_changed"],
         refactored |-> counts["refactored"],
         added_methods |-> Cardinality(result.added_ids),
         deleted_methods |-> Cardinality(result.deleted_ids),
         total_t |-> Len(prev),
         total_t1 |-> Len(curr)]

\* prev_snapshot kept once set: every snapshot is compared with the first.
carry_first(prev, curr) == IF prev = Absent THEN Present(curr) ELSE prev

\* "prev_snapshot = curr_snapshot" at the end of a pass of the loop.
carry_over(prev, curr) == Present(curr)

\* The snapshots the files parse to.  T6 and T6b have an LCS similarity of
\* 83 percent and no common 5-gram.
T6 == <<1, 2, 3, 4, 5, 6>>
T6b == <<1, 2, 9, 4, 5, 6>>
Hashed == [token_hash |-> "h1", token_sequence |-> Present(T6)]
Plain == [token_hash |-> "", token_sequence |-> Present(T6)]
PlainB == [token_hash |-> "", token_sequence |-> Present(T6b)]

\* The empty snapshot, snapshots of one method such that a pair of them
\* gives a match of each type or none, and snapshots of two methods.
TrackSnapshots ==
    { <<>>,
      <<MethodInfo(FooX, Hashed)>>,
      <<MethodInfo(FooX, Plain)>>,
      <<MethodInfo(BarX, Plain)>>,
      <<MethodInfo(FooIntX, Plain)>>,
      <<MethodInfo(FooY, Hashed)>>,
      <<MethodInfo(FooY, PlainB)>>,
      <<MethodInfo(FooX, Hashed), MethodInfo(BarX, Plain)>>,
      <<MethodInfo(FooY, Hashed), MethodInfo(BarX, Plain)>>,
      <<MethodInfo(FooX, Plain), MethodInfo(BarX, Hashed)>> }

\* The defaults, and similarity matching without n-gram filter.
TrackConfigs ==
    { [use_similarity |-> FALSE, ngram_threshold |-> 10, lcs_threshold |-> 70],
      [use_similarity |-> TRUE,  ngram_threshold |-> 0,  lcs_threshold |-> 70] }

\* A tracker built with one of the configurations and track_methods called
\* on a directory of up to MaxSnapshots files.
TrackInit ==
    /\ SimIdle
    /\ CloneIdle
    /\ HeapIdle
    /\ \E c \in TrackConfigs :
          /\ use_similarity = c.use_similarity
          /\ ngram_threshold = c.ngram_threshold
          /\ lcs_threshold = c.lcs_threshold
    /\ snapshot_t = <<>> /\ snapshot_t1 = <<>>
    /\ pc = "idle"
    /\ all_matches = <<>>
    /\ matched_t = {} /\ matched_t1 = {}
    /\ unmatched_t = <<>> /\ unmatched_t1 = <<>>
    /\ added_ids = {} /\ deleted_ids = {}
    /\ methods_t = <<>> /\ methods_t1 = <<>>
    /\ sim_k = 0
    /\ sim_matched_t = {} /\ sim_matched_t1 = {}
    /\ sim_matches = <<>>
    /\ last_scan = Absent
    /\ code_block_files \in SeqsUpTo(TrackSnapshots, MaxSnapshots)
    /\ track_pc = "start"
    /\ curr_index = 0
    /\ prev_snapshot = Absent
    /\ analyze_calls = <<>>
    /\ summary_rows = <<>>

\* The files are listed: with fewer than two, a warning and the return;
\* else the output files are opened and the loop begins.
TrackBegin ==
    /\ track_pc = "start"
    /\ IF Len(code_block_files) < 2
       THEN track_pc' = "done" /\ UNCHANGED curr_index
       ELSE track_pc' = "loop" /\ curr_index' = 1
    /\ UNCHANGED <<code_block_files, prev_snapshot, analyze_calls, summary_rows>>
    /\ UNCHANGED simVars /\ UNCHANGED trackerVars /\ UNCHANGED cloneVars /\ UNCHANGED heapVars

\* One pass of the loop over code_block_files: the file is parsed, and when
\* there is a previous snapshot, analyze_changes is called on the pair, the
\* matches are counted and the summary row is written.
TrackFile ==
    /\ track_pc = "loop"
    /\ curr_index <= Len(code_block_files)
    /\ LET curr_snapshot == code_block_files[curr_index]
       IN  /\ IF prev_snapshot # Absent
              THEN LET result == analyze_changes(prev_snapshot[1], curr_snapshot,
                                     use_similarity, ngram_threshold, lcs_threshold)
                   IN  /\ analyze_calls' = Append(analyze_calls,
                              [snapshot_t |-> prev_snapshot[1],
                               snapshot_t1 |-> curr_snapshot,
                               result |-> result])
                       /\ summary_rows' = Append(summary_rows,
                              summary_row(curr_index - 1, curr_index, result,
                                          prev_snapshot[1], curr_snapshot))
              ELSE UNCHANGED <<analyze_calls, summary_rows>>
           /\ prev_snapshot' = carry_over(prev_snapshot, curr_snapshot)
    /\ curr_index' = curr_index + 1
    /\ UNCHANGED <<code_block_files, track_pc>>
    /\ UNCHANGED simVars /\ UNCHANGED trackerVars /\ UNCHANGED cloneVars /\ UNCHANGED heapVars

\* The loop ends, the output files are closed and track_methods returns.
TrackEnd ==
    /\ track_pc = "loop"
    /\ curr_index > Len(code_block_files)
    /\ track_pc' = "done"
    /\ UNCHANGED <<code_block_files, curr_index, prev_snapshot, analyze_calls,
                   summary_rows>>
    /\ UNCHANGED simVars /\ UNCHANGED trackerVars /\ UNCHANGED cloneVars /\ UNCHANGED heapVars

TrackNext ==
    \/ TrackBegin
    \/ TrackFile
    \/ TrackEnd

SpecTrack == TrackInit /\ [][TrackNext]_vars

\* ------------------------------------------------------------------------
\* analyze_changes on objects: one tracker, the parsed snapshots, and the
\* transitions computed in any order
\* ------------------------------------------------------------------------

\* The objects analyze_changes and find_token_hash_matches create and
\* write to are kept in heap, and the locals that name them in frame hold
\* references: 421 all_matches, 428-429 matched_t / matched_t1, 432-433
\* and 447-448 unmatched_t / unmatched_t1, 271 matches, 274 and 281 the
\* two hash_to_methods dicts and 278, 285 their lists.  A dict of methods
\* is the sequence of its values in insertion order, as a snapshot is; a
\* MethodInfo is a frozen dataclass and is kept as a value.  Objects are
\* never freed: what a call leaves behind stays in heap for the next call.

\* The reference the next object created gets.
new_ref(h) == Len(h) + 1

\* A new object with the given content.
alloc(h, object) == Append(h, object)

\* The content of the object ref replaced.
store(h, ref, object) == [h EXCEPT ![ref] = object]

\* "token_hash in hash_to_methods": the dict is the sequence of its items,
\* each a token_hash and the reference of its list.
has_hash(groups, token_hash) ==
    \E i \in 1..Len(groups) : groups[i].token_hash = token_hash

\* hash_to_methods[token_hash]: the reference of the list.
methods_of(groups, token_hash) ==
    groups[CHOOSE i \in 1..Len(groups) : groups[i].token_hash = token_hash].methods

\* "if method.token_hash not in hash_to_methods: hash_to_methods[...] = []":
\* a hash met for the first time gets a new list.
ensure_list(h, groups, token_hash) ==
    IF has_hash(h[groups], token_hash)
    THEN h
    ELSE store(alloc(h, <<>>), groups,
               Append(h[groups], [token_hash |-> token_hash,
                                  methods |-> new_ref(h)]))

\* list.append(item)
append_to(h, list, item) == store(h, list, Append(h[list], item))

\* "Group by token_hash": the loop over the items i.. of the dict
\* unmatched, which fills the dict groups with the methods that have a
\* hash.
RECURSIVE group_by_hash(_, _, _, _)
group_by_hash(h, groups, unmatched, i) ==
    IF i > Len(h[unmatched])
    THEN h
    ELSE IF groupable(h[unmatched][i])
    THEN group_by_hash(
             append_to(ensure_list(h, groups, h[unmatched][i].token_hash),
                       methods_of(ensure_list(h, groups,
                                              h[unmatched][i].token_hash)[groups],
                                  h[unmatched][i].token_hash),
                       h[unmatched][i]),
             groups, unmatched, i + 1)
    ELSE group_by_hash(h, groups, unmatched, i + 1)

\* "hash_to_methods = {}" and the loop that fills it from unmatched.
new_groups(h, unmatched) ==
    group_by_hash(alloc(h, <<>>), new_ref(h), unmatched, 1)

\* list.extend(other)
extend(h, list, other) == store(h, list, h[list] \o h[other])

\* The ids matched on the before side by the calls made so far.
matched_so_far_t ==
    UNION {ids_t(transitions[i].result.matches) : i \in 1..Len(transitions)}

\* matched_t kept from the calls before, as if the set were an attribute
\* of the tracker.
new_ids_t_kept(h, list) == alloc(h, ids_t(h[list]) \cup matched_so_far_t)

\* matched_t = {match.method_t.full_id for match in all_matches}
new_ids_t(h, list) == alloc(h, ids_t(h[list]))

\* matched_t1 = {match.method_t1.full_id for match in all_matches}
new_ids_t1(h, list) == alloc(h, ids_t1(h[list]))

\* "for match in matches: matched_t.add(match.method_t.full_id)"
add_ids_t(h, ids, list) == store(h, ids, h[ids] \cup ids_t(h[list]))

\* "for match in matches: matched_t1.add(match.method_t1.full_id)"
add_ids_t1(h, ids, list) == store(h, ids, h[ids] \cup ids_t1(h[list]))

\* {k: v for k, v in snapshot.items() if k not in matched}: a new dict.
new_unmatched(h, snapshot, matched) ==
    alloc(h, without_matched(h[snapshot], h[matched]))

\* The paired candidate removed from its list and from the after snapshot.
pop_first_everywhere(h, f, list) ==
    store(store(h, list, Tail(h[list])), f.snapshot_t1,
          without_matched(h[f.snapshot_t1], {full_id(Head(h[list]))}))

\* methods_t1.pop(0): the list loses its first item.
pop_first(h, f, list) == store(h, list, Tail(h[list]))

\* The snapshots the files parse to: empty; two hashed methods, twice, with
\* no key in common; a hashed and a plain method, with the keys of the
\* first; one plain method with other tokens.
HeapSnapshots ==
    { <<>>,
      <<MethodInfo(FooX, Hashed), MethodInfo(BarX, Hashed)>>,
      <<MethodInfo(FooY, Hashed), MethodInfo(FooIntX, Hashed)>>,
      <<MethodInfo(FooX, Hashed), MethodInfo(BarX, Plain)>>,
      <<MethodInfo(FooY, PlainB)>> }

\* A tracker built with one of the configurations, and the files of a
\* directory parsed by parse_code_blocks: the dict of file k is object k.
HeapInit ==
    /\ SimIdle
    /\ CloneIdle
    /\ \E c \in TrackConfigs :
          /\ use_similarity = c.use_similarity
          /\ ngram_threshold = c.ngram_threshold
          /\ lcs_threshold = c.lcs_threshold
    /\ snapshot_t = <<>> /\ snapshot_t1 = <<>>
    /\ pc = "idle"
    /\ all_matches = <<>>
    /\ matched_t = {} /\ matched_t1 = {}
    /\ unmatched_t = <<>> /\ unmatched_t1 = <<>>
    /\ added_ids = {} /\ deleted_ids = {}
    /\ methods_t = <<>> /\ methods_t1 = <<>>
    /\ sim_k = 0
    /\ sim_matched_t = {} /\ sim_matched_t1 = {}
    /\ sim_matches = <<>>
    /\ last_scan = Absent
    /\ code_block_files \in SeqsUpTo(HeapSnapshots, MaxSnapshots)
    /\ track_pc = "idle"
    /\ curr_index = 0
    /\ prev_snapshot = Absent
    /\ analyze_calls = <<>>
    /\ summary_rows = <<>>
    /\ heap = code_block_files
    /\ frame = IdleFrame
    /\ transitions = <<>>

\* The pairs (file k, file k + 1) whose transition has been computed.
pairs_done == {transitions[i].pair : i \in 1..Len(transitions)}

\* analyze_changes called on the snapshots of the files k and k + 1, for a
\* pair not yet computed, and its step 1: all_matches is a new list,
\* find_exact_matches returns a new list that extends it, matched_t and
\* matched_t1 are new sets and unmatched_t and unmatched_t1 new dicts.
AnalyzeEnter ==
    /\ frame.pc = "idle"
    /\ \E k \in 1..(Len(code_block_files) - 1) :
          /\ k \notin pairs_done
          /\ LET r_all == new_ref(heap)
                 r_exact == new_ref(heap) + 1
                 r_matched_t == new_ref(heap) + 2
                 r_matched_t1 == new_ref(heap) + 3
                 r_unmatched_t == new_ref(heap) + 4
                 r_unmatched_t1 == new_ref(heap) + 5
             IN  /\ heap' =
                      new_unmatched(
                        new_unmatched(
                          new_ids_t1(
                            new_ids_t(
                              extend(alloc(alloc(heap, <<>>),
                                           find_exact_matches(heap[k], heap[k + 1])),
                                     r_all, r_exact),
                              r_all),
                            r_all),
                          k, r_matched_t),
                        k + 1, r_matched_t1)
                 /\ frame' = [IdleFrame EXCEPT
                        !.pc = "token_hash", !.pair = k,
                        !.snapshot_t = k, !.snapshot_t1 = k + 1,
                        !.all_matches = r_all,
                        !.matched_t = r_matched_t, !.matched_t1 = r_matched_t1,
                        !.unmatched_t = r_unmatched_t,
                        !.unmatched_t1 = r_unmatched_t1]
    /\ UNCHANGED transitions
    /\ UNCHANGED simVars /\ UNCHANGED trackerVars /\ UNCHANGED batchVars
    /\ UNCHANGED cloneVars

\* Step 2 entered: when both unmatched dicts have items,
\* find_token_hash_matches is called; it creates matches, then
\* hash_to_methods_t and its lists, then hash_to_methods_t1 and its lists,
\* and its pairing loop begins.
TokenHashEnter ==
    /\ frame.pc = "token_hash"
    /\ IF heap[frame.unmatched_t] # <<>> /\ heap[frame.unmatched_t1] # <<>>
       THEN /\ heap' = new_groups(new_groups(alloc(heap, <<>>), frame.unmatched_t),
                                  frame.unmatched_t1)
            /\ frame' = [frame EXCEPT
                   !.pc = "pairing",
                   !.matches = new_ref(heap),
                   !.hash_to_methods_t = new_ref(heap) + 1,
                   !.hash_to_methods_t1 =
                       new_ref(heap) + 2 + Len(heap'[new_ref(heap) + 1]),
                   !.hash_k = 1, !.method_i = 1]
       ELSE /\ heap' = heap
            /\ frame' = [frame EXCEPT !.pc = "similarity"]
    /\ UNCHANGED transitions
    /\ UNCHANGED simVars /\ UNCHANGED trackerVars /\ UNCHANGED batchVars
    /\ UNCHANGED cloneVars

\* The loop "for token_hash in hash_to_methods_t" has a hash left.
PairingHash ==
    /\ frame.pc = "pairing"
    /\ frame.hash_k <= Len(heap[frame.hash_to_methods_t])

\* The hash of the running pass of that loop.
current_hash == heap[frame.hash_to_methods_t][frame.hash_k].token_hash

\* The references of methods_t and methods_t1 for the hash.
current_methods_t == methods_of(heap[frame.hash_to_methods_t], current_hash)
current_methods_t1 == methods_of(heap[frame.hash_to_methods_t1], current_hash)

\* The inner loop has a method_t left and methods_t1 is not empty.
PairingMethod ==
    /\ PairingHash
    /\ has_hash(heap[frame.hash_to_methods_t1], current_hash)
    /\ frame.method_i <= Len(heap[current_methods_t])
    /\ heap[current_methods_t1] # <<>>

\* One pass of the inner loop: method_t1 = methods_t1.pop(0), and the match
\* of method_t and method_t1 is appended to matches.
PairingPop ==
    /\ PairingMethod
    /\ heap' = append_to(pop_first(heap, frame, current_methods_t1),
                         frame.matches,
                         MethodMatch(heap[current_methods_t][frame.method_i],
                                     Head(heap[current_methods_t1]),
                                     "token_hash", 100))
    /\ frame' = [frame EXCEPT !.method_i = frame.method_i + 1]
    /\ UNCHANGED transitions
    /\ UNCHANGED simVars /\ UNCHANGED trackerVars /\ UNCHANGED batchVars
    /\ UNCHANGED cloneVars

\* The pass for a hash ends: the hash is not in hash_to_methods_t1, the
\* methods of methods_t are exhausted, or methods_t1 is empty (break).
PairingNextHash ==
    /\ PairingHash
    /\ ~PairingMethod
    /\ frame' = [frame EXCEPT !.hash_k = frame.hash_k + 1, !.method_i = 1]
    /\ UNCHANGED <<heap, transitions>>
    /\ UNCHANGED simVars /\ UNCHANGED trackerVars /\ UNCHANGED batchVars
    /\ UNCHANGED cloneVars

\* find_token_hash_matches returns matches: all_matches is extended, the
\* matched sets get the ids of the matches, and unmatched_t and
\* unmatched_t1 are built again from the snapshots.
TokenHashReturn ==
    /\ frame.pc = "pairing"
    /\ frame.hash_k > Len(heap[frame.hash_to_methods_t])
    /\ heap' =
         new_unmatched(
           new_unmatched(
             add_ids_t1(
               add_ids_t(extend(heap, frame.all_matches, frame.matches),
                         frame.matched_t, frame.matches),
               frame.matched_t1, frame.matches),
             frame.snapshot_t, frame.matched_t),
           frame.snapshot_t1, frame.matched_t1)
    /\ frame' = [frame EXCEPT
           !.pc = "similarity",
           !.unmatched_t = new_ref(heap),
           !.unmatched_t1 = new_ref(heap) + 1]
    /\ UNCHANGED transitions
    /\ UNCHANGED simVars /\ UNCHANGED trackerVars /\ UNCHANGED batchVars
    /\ UNCHANGED cloneVars

\* Step 3 and the return: when similarity matching is enabled and both
\* unmatched dicts have items, find_similarity_matches returns a new list,
\* which extends all_matches and whose ids are added to the matched sets;
\* added_ids and deleted_ids are the keys of the snapshots not matched.
AnalyzeReturn ==
    /\ frame.pc = "similarity"
    /\ IF /\ use_similarity
          /\ heap[frame.unmatched_t] # <<>>
          /\ heap[frame.unmatched_t1] # <<>>
       THEN heap' =
              add_ids_t1(
                add_ids_t(
                  extend(alloc(heap,
                               find_similarity_matches(heap[frame.unmatched_t],
                                                       heap[frame.unmatched_t1],
                                                       use_similarity,
                                                       ngram_threshold,
                                                       lcs_threshold)),
                         frame.all_matches, new_ref(heap)),
                  frame.matched_t, new_ref(heap)),
                frame.matched_t1, new_ref(heap))
       ELSE heap' = heap
    /\ transitions' =
         Append(transitions,
                [pair |-> frame.pair,
                 result |->
                     [matches |-> heap'[frame.all_matches],
                      added_ids |-> snapshot_keys(heap'[frame.snapshot_t1])
                                        \ heap'[frame.matched_t1],
                      deleted_ids |-> snapshot_keys(heap'[frame.snapshot_t])
                                          \ heap'[frame.matched_t]]])
    /\ frame' = IdleFrame
    /\ UNCHANGED simVars /\ UNCHANGED trackerVars /\ UNCHANGED batchVars
    /\ UNCHANGED cloneVars

HeapNext ==
    \/ AnalyzeEnter
    \/ TokenHashEnter
    \/ PairingPop
    \/ PairingNextHash
    \/ TokenHashReturn
    \/ AnalyzeReturn

SpecHeap == HeapInit /\ [][HeapNext]_vars

\* ------------------------------------------------------------------------
\* unique_clone_analyzer: CodeBlock, CodeClonePair, UniqueCloneAnalyzer
\* ------------------------------------------------------------------------

\* Most lines in the CSV file.
MaxRows == 3

\* The strings of the blocks drawn below, in the order of Python's str
\* comparison.
StrOrder == <<"a.c", "b.c", "f", "g", "int", "x">>

\* s < t for two strings of StrOrder.
str_lt(s, t) ==
    \E i, j \in 1..Len(StrOrder) : StrOrder[i] = s /\ StrOrder[j] = t /\ i < j

\* The tuple compared in CodeClonePair.__post_init__.
field_tuple(block) ==
    <<block.file_path, block.start_line, block.end_line,
      block.function_name, block.return_type, block.parameters>>

\* The fields of field_tuple that are strings.
StringFields == {1, 4, 5, 6}

\* x[k..] > y[k..] for two field tuples: Python compares tuples by their
\* first differing element.
RECURSIVE tuple_gt(_, _, _)
tuple_gt(x, y, k) ==
    IF k > Len(x)
    THEN FALSE
    ELSE IF x[k] = y[k]
    THEN tuple_gt(x, y, k + 1)
    ELSE IF k \in StringFields THEN str_lt(y[k], x[k]) ELSE y[k] < x[k]

\* CodeClonePair(block1, block2) after __post_init__: when the tuple of
\* block1 is greater, block1 is set to self.block2 and then block2 is set
\* to self.block1, which the first assignment has already replaced.
CodeClonePair(block1, block2) ==
    LET self == [block1 |-> block1, block2 |-> block2]
    IN  IF tuple_gt(field_tuple(self.block1), field_tuple(self.block2), 1)
        THEN LET self_1 == [self EXCEPT !.block1 = self.block2]
                 self_2 == [self_1 EXCEPT !.block2 = self_1.block1]
             IN  self_2
        ELSE self

\* str(block): "file_path:start_line-end_line:function_name:return_type:
\* parameters", here the tuple of its parts; the strings drawn hold none of
\* the separators, so two blocks have the same str exactly when they have
\* the same parts.
block_str(block) == field_tuple(block)

\* pair.get_hash(): the MD5 digest of "{block1}|{block2}", here the content
\* that is digested; two contents drawn here have different digests.
get_hash(pair) == <<block_str(pair.block1), block_str(pair.block2)>>

\* self.pair_to_id[pair_hash]
id_of(items, pair_hash) == (CHOOSE item \in items : item[1] = pair_hash)[2]

\* pair_hash in self.pair_to_id
has_id(items, pair_hash) == \E item \in items : item[1] = pair_hash

\* process_pair without the lookup: every pair is taken to be new.
process_pair_new(analyzer, pair) ==
    [pair_to_id |-> {item \in analyzer.pair_to_id : item[1] # get_hash(pair)}
                        \cup {<<get_hash(pair), analyzer.next_id>>},
     next_id |-> analyzer.next_id + 1,
     processed_pairs |-> Append(analyzer.processed_pairs,
         [pair |-> pair, pair_id |-> analyzer.next_id, is_first |-> TRUE])]

\* process_pair(pair) on an analyzer with the given pair_to_id, next_id and
\* processed_pairs: the analyzer after the call.
process_pair(analyzer, pair) ==
    LET pair_hash == get_hash(pair)
    IN  IF has_id(analyzer.pair_to_id, pair_hash)
        THEN [analyzer EXCEPT
                 !.processed_pairs = Append(@,
                     [pair |-> pair,
                      pair_id |-> id_of(analyzer.pair_to_id, pair_hash),
                      is_first |-> FALSE])]
        ELSE [pair_to_id |-> analyzer.pair_to_id \cup {<<pair_hash, analyzer.next_id>>},
              next_id |-> analyzer.next_id + 1,
              processed_pairs |-> Append(analyzer.processed_pairs,
                  [pair |-> pair, pair_id |-> analyzer.next_id, is_first |-> TRUE])]

\* The blocks drawn: BlockA < BlockC < BlockB in the order of the tuples;
\* BlockC differs from BlockA by its end line only.
BlockA == [file_path |-> "a.c", start_line |-> 1, end_line |-> 2,
           function_name |-> "g", return_type |-> "int", parameters |-> "x"]
BlockB == [file_path |-> "b.c", start_line |-> 1, end_line |-> 2,
           function_name |-> "f", return_type |-> "int", parameters |-> "x"]
BlockC == [file_path |-> "a.c", start_line |-> 1, end_line |-> 3,
           function_name |-> "g", return_type |-> "int", parameters |-> "x"]

CodeBlocks == {BlockA, BlockB, BlockC}

\* The decimal texts int() reads in the files drawn: Digits[n + 1] is the
\* text of n.
Digits == <<"0", "1", "2", "3">>

\* int(cell) succeeds: any other text raises ValueError.
is_int(cell) == \E i \in 1..Len(Digits) : Digits[i] = cell

\* int(cell) of a cell int() reads.
int_of(cell) == (CHOOSE i \in 1..Len(Digits) : Digits[i] = cell) - 1

\* The six fields a block is written with in a line of the file.
block_fields(block) ==
    <<block.file_path, Digits[block.start_line + 1], Digits[block.end_line + 1],
      block.function_name, block.return_type, block.parameters>>

\* The line of two blocks: twelve fields.
line_of(block1, block2) == block_fields(block1) \o block_fields(block2)

\* The lines a file is drawn from, each as its comma-separated fields:
\* the lines of two valid blocks, a blank line, a line already processed
\* (the twelve fields and three more), a line cut short, a line whose last
\* field is empty, and lines of twelve fields whose first block has start
\* line 0, a start line after its end line, or a start line that is no
\* number.
BlankLine == <<>>
ProcessedLine == line_of(BlockA, BlockC) \o <<"1", "True", "x">>
ShortLine == SubSeq(line_of(BlockA, BlockC), 1, 11)
EmptyLastLine == SubSeq(line_of(BlockA, BlockC), 1, 11) \o <<"">>
ZeroStartLine == <<"a.c", "0", "2", "g", "int", "x">> \o block_fields(BlockC)
ReversedLine == <<"a.c", "3", "2", "g", "int", "x">> \o block_fields(BlockC)
NonIntLine == <<"a.c", "x", "2", "g", "int", "x">> \o block_fields(BlockC)

CsvLines ==
    {line_of(block1, block2) : block1 \in CodeBlocks, block2 \in CodeBlocks}
        \cup {BlankLine, ProcessedLine, ShortLine, EmptyLastLine,
              ZeroStartLine, ReversedLine, NonIntLine}

\* split_csv_line on a line of the given fields (none holds a comma or a
\* bracket): one column per field, but the last field is added only when
\* it is not empty.
split_csv_line(fields) ==
    IF fields # <<>> /\ fields[Len(fields)] = ""
    THEN SubSeq(fields, 1, Len(fields) - 1)
    ELSE fields

\* CodeBlock(...) of six columns of a row, starting after column offset:
\* int() of the two line numbers, then __post_init__. Absent when either
\* raises ValueError.
CodeBlock(row, offset) ==
    IF ~is_int(row[offset + 2]) \/ ~is_int(row[offset + 3])
    THEN Absent
    ELSE LET start_line == int_of(row[offset + 2])
             end_line == int_of(row[offset + 3])
         IN  IF start_line <= 0 \/ end_line <= 0 \/ start_line > end_line
             THEN Absent
             ELSE Present([file_path |-> row[offset + 1],
                           start_line |-> start_line,
                           end_line |-> end_line,
                           function_name |-> row[offset + 4],
                           return_type |-> row[offset + 5],
                           parameters |-> row[offset + 6]])

\* parse_csv_line: "none" for a row of 15 columns (it returns None),
\* "error" when it raises ValueError (another number of columns than 12, or
\* a block that cannot be built), "pair" with the CodeClonePair otherwise.
parse_csv_line(row) ==
    IF Len(row) = 15
    THEN [outcome |-> "none", pair |-> Absent]
    ELSE IF Len(row) # 12
    THEN [outcome |-> "error", pair |-> Absent]
    ELSE LET block1 == CodeBlock(row, 0)
             block2 == CodeBlock(row, 6)
         IN  IF block1 = Absent \/ block2 = Absent
             THEN [outcome |-> "error", pair |-> Absent]
             ELSE [outcome |-> "pair",
                   pair |-> Present(CodeClonePair(block1[1], block2[1]))]

\* A new analyzer and analyze_csv_file called on a file of up to MaxRows
\* lines.
CloneInit ==
    /\ SimIdle
    /\ TrackerIdle
    /\ BatchIdle
    /\ HeapIdle
    /\ csv_lines \in SeqsUpTo(CsvLines, MaxRows)
    /\ clone_pc = "lines"
    /\ line_num = 1
    /\ pair_to_id = {}
    /\ next_id = 1
    /\ processed_pairs = <<>>
    /\ error_count = 0

\* One pass of the loop of analyze_csv_file. A blank line is skipped; a row
\* parse_csv_line returns None for is skipped; a ValueError of
\* parse_csv_line is caught and counted; any other row gives a
\* CodeClonePair, which is given to process_pair. Every pass consumes the
\* line.
AnalyzeLine ==
    /\ clone_pc = "lines"
    /\ line_num <= Len(csv_lines)
    /\ LET line == csv_lines[line_num]
           parsed == parse_csv_line(split_csv_line(line))
           after == process_pair([pair_to_id |-> pair_to_id,
                                  next_id |-> next_id,
                                  processed_pairs |-> processed_pairs],
                                 parsed.pair[1])
       IN  IF line = BlankLine \/ parsed.outcome = "none"
           THEN UNCHANGED <<pair_to_id, next_id, processed_pairs, error_count>>
           ELSE IF parsed.outcome = "error"
           THEN /\ error_count' = error_count + 1
                /\ UNCHANGED <<pair_to_id, next_id, processed_pairs>>
           ELSE /\ pair_to_id' = after.pair_to_id
                /\ next_id' = after.next_id
                /\ processed_pairs' = after.processed_pairs
                /\ UNCHANGED error_count
    /\ line_num' = line_num + 1
    /\ UNCHANGED <<csv_lines, clone_pc>>
    /\ UNCHANGED simVars /\ UNCHANGED trackerVars /\ UNCHANGED batchVars
    /\ UNCHANGED heapVars

\* The end of the file: analyze_csv_file returns.
AnalyzeEnd ==
    /\ clone_pc = "lines"
    /\ line_num > Len(csv_lines)
    /\ clone_pc' = "done"
    /\ UNCHANGED <<csv_lines, line_num, pair_to_id, next_id, processed_pairs,
                   error_count>>
    /\ UNCHANGED simVars /\ UNCHANGED trackerVars /\ UNCHANGED batchVars
    /\ UNCHANGED heapVars

CloneNext ==
    \/ AnalyzeLine
    \/ AnalyzeEnd

SpecClone == CloneInit /\ [][CloneNext]_vars

\* ------------------------------------------------------------------------
\* Properties of the similarity calculator (under SpecSim)
\* ------------------------------------------------------------------------

SimDone == sim_pc = "done"

Max(x, y) == IF x > y THEN x ELSE y

\* The classical dynamic-programming recurrence for the LCS length of the
\* prefixes a[1..i] and b[1..j].
RECURSIVE LcsPrefix(_, _, _, _)
LcsPrefix(a, b, i, j) ==
    IF i = 0 \/ j = 0
    THEN 0
    ELSE IF a[i] = b[j]
         THEN LcsPrefix(a, b, i - 1, j - 1) + 1
         ELSE Max(LcsPrefix(a, b, i - 1, j), LcsPrefix(a, b, i, j - 1))

LcsLength(a, b) == LcsPrefix(a, b, Len(a), Len(b))

HasRepeatedToken(a) == \E i, j \in 1..Len(a) : i # j /\ a[i] = a[j]

\* C3: _hunt_szymanski_lcs(a, b) returns the true LCS length of a and b, the
\* value of the dynamic-programming recurrence, for every pair of sequences:
\* the call that ran step by step returned it without an index error, and
\* the function gives it in both argument orders, 0 for an empty sequence.
C3_HuntSzymanskiIsExact ==
    SimDone =>
        /\ hunt_szymanski_lcs(tokens_a, tokens_b) = LcsLength(tokens_a, tokens_b)
        /\ hunt_szymanski_lcs(tokens_b, tokens_a) = LcsLength(tokens_b, tokens_a)
        /\ (tokens_a = <<>> \/ tokens_b = <<>>)
              => hunt_szymanski_lcs(tokens_a, tokens_b) = 0
        /\ ~hs_raised
        /\ hs_len # Absent => hs_len[1] = LcsLength(tokens_a, tokens_b)

\* C3 witness: the routine has returned 2 for two different sequences of
\* equal length 3, one of them with a repeated token.
C3_Witness ==
    /\ SimDone
    /\ Len(tokens_a) = 3 /\ Len(tokens_b) = 3
    /\ tokens_a # tokens_b
    /\ HasRepeatedToken(tokens_a)
    /\ hs_len = Present(2)

\* C7 as stated: for every non-empty a of any length, both similarities of
\* a with itself are 100.
C7_Original ==
    (SimDone /\ tokens_a # <<>> /\ tokens_a = tokens_b)
        => (lcs_ab = Present(100) /\ ngram_ab = Present(100))

\* C7 amended: for every non-empty a, calc_lcs_similarity(a, a) is 100, and
\* calc_ngram_similarity(a, a) is 100 when len(a) >= gram_size and 0 when
\* len(a) < gram_size.
C7_IdentityFromGramSize ==
    (SimDone /\ tokens_a # <<>> /\ tokens_a = tokens_b)
        => /\ lcs_ab = Present(100)
           /\ Len(tokens_a) >= gram_size => ngram_ab = Present(100)
           /\ Len(tokens_a) < gram_size => ngram_ab = Present(0)

\* C7 witness: a sequence exactly as long as gram_size > 1, compared with
\* itself, scored 100 on both.
C7_Witness ==
    /\ SimDone
    /\ tokens_a = tokens_b
    /\ gram_size > 1
    /\ Len(tokens_a) = gram_size
    /\ lcs_ab = Present(100)
    /\ ngram_ab = Present(100)

\* C8: both similarities are symmetric in their arguments, equal lengths
\* included.
C8_Symmetry ==
    SimDone => (lcs_ab = lcs_ba /\ ngram_ab = ngram_ba)

\* C8 witness: two different sequences of equal length 3, where the routine
\* takes the second argument as the shorter one, scored 66 on LCS and 50 on
\* n-grams in both argument orders.
C8_Witness ==
    /\ SimDone
    /\ Len(tokens_a) = 3 /\ Len(tokens_b) = 3
    /\ tokens_a # tokens_b
    /\ lcs_ab = Present(66) /\ lcs_ba = Present(66)
    /\ ngram_ab = Present(50) /\ ngram_ba = Present(50)

\* C9: both similarities are integers between 0 and 100.
C9_Range ==
    SimDone =>
        /\ ngram_ab[1] \in 0..100
        /\ ngram_ba[1] \in 0..100
        /\ lcs_ab[1] \in 0..100
        /\ lcs_ba[1] \in 0..100

\* C9 witness: sequences with repeated windows reach both ends of the range:
\* an n-gram similarity of 100 with an LCS similarity below 100.
C9_Witness ==
    /\ SimDone
    /\ HasRepeatedToken(tokens_a)
    /\ ngram_ab = Present(100)
    /\ lcs_ab[1] \in 1..99

\* ------------------------------------------------------------------------
\* Properties of analyze_changes (under Spec)
\* ------------------------------------------------------------------------

Done == pc = "done"

MatchIndices == 1..Len(all_matches)

KeysT == snapshot_keys(snapshot_t)
KeysT1 == snapshot_keys(snapshot_t1)

SimilarityTypes == {"renamed", "moved", "signature_changed", "refactored"}

\* The stage that produces a match type.
StageOf(match_type) ==
    IF match_type = "exact" THEN 1 ELSE IF match_type = "token_hash" THEN 2 ELSE 3

\* The matches produced so far, those of a running stage 3 included.
MatchesSoFar ==
    IF pc = "sim_loop" THEN all_matches \o sim_matches ELSE all_matches

\* C1: after analyze_changes, the matches are a partial injection between
\* the records of the two snapshots, and every key of snapshot_t is either
\* the before side of a match or in deleted_ids, never both, and every key
\* of snapshot_t1 either the after side of a match or in added_ids.
C1_Injectivity ==
    Done =>
        /\ \A i, j \in MatchIndices :
              full_id(all_matches[i].method_t) = full_id(all_matches[j].method_t)
                  => i = j
        /\ \A i, j \in MatchIndices :
              full_id(all_matches[i].method_t1) = full_id(all_matches[j].method_t1)
                  => i = j
        /\ \A i \in MatchIndices :
              /\ \E k \in 1..Len(snapshot_t) : snapshot_t[k] = all_matches[i].method_t
              /\ \E k \in 1..Len(snapshot_t1) : snapshot_t1[k] = all_matches[i].method_t1
        /\ deleted_ids \subseteq KeysT
        /\ added_ids \subseteq KeysT1
        /\ \A key \in KeysT :
              (key \in ids_t(all_matches)) # (key \in deleted_ids)
        /\ \A key \in KeysT1 :
              (key \in ids_t1(all_matches)) # (key \in added_ids)

\* C1 witness: two before methods competed for the same after method in
\* stage 3: one match, one deleted and one added method.
C1_Witness ==
    /\ Done
    /\ Len(snapshot_t) = 2 /\ Len(snapshot_t1) = 2
    /\ Len(all_matches) = 1
    /\ all_matches[1].match_type \in SimilarityTypes
    /\ Cardinality(deleted_ids) = 1
    /\ Cardinality(added_ids) = 1
    /\ \A k \in 1..2 : has_tokens(snapshot_t[k])

\* The matches that involve the key on either side.
MatchesOfKey(key) ==
    {i \in 1..Len(MatchesSoFar) :
        \/ full_id(MatchesSoFar[i].method_t) = key
        \/ full_id(MatchesSoFar[i].method_t1) = key}

\* C2: once stage 1 has run, every key present in both snapshots has
\* exactly one match, the exact match with similarity 1.0 of its two
\* records, and neither record is among the methods handed to the
\* content-hash stage or the similarity stage.
C2_ExactPrecedence ==
    pc # "exact" =>
        \A key \in KeysT \cap KeysT1 :
            /\ Cardinality(MatchesOfKey(key)) = 1
            /\ \A i \in MatchesOfKey(key) :
                  MatchesSoFar[i] =
                      MethodMatch(snapshot_get(snapshot_t, key),
                                  snapshot_get(snapshot_t1, key), "exact", 100)
            /\ key \notin snapshot_keys(unmatched_t)
            /\ key \notin snapshot_keys(unmatched_t1)
            /\ key \notin snapshot_keys(methods_t)
            /\ key \notin snapshot_keys(methods_t1)

\* C2 witness: the two records of a shared key have the same token_hash and
\* the same tokens as two other methods, which stage 2 paired.
C2_Witness ==
    /\ Done
    /\ Len(all_matches) = 2
    /\ all_matches[1].match_type = "exact"
    /\ all_matches[2].match_type = "token_hash"
    /\ all_matches[1].method_t.token_hash = "h1"
    /\ all_matches[1].method_t1.token_hash = "h1"
    /\ all_matches[2].method_t.token_hash = "h1"

\* C4: the stages run in the order exact, content-hash, similarity, each on
\* the records no earlier stage claimed: the matches are listed in stage
\* order; a match of stage 2 or 3 pairs a before record whose key is not in
\* snapshot_t1 with an after record whose key is not in snapshot_t, so the
\* keys differ and a signature_changed match has two signatures; and no
\* record of a stage 3 match is in a token_hash match.
C4_StagedOrder ==
    LET ms == MatchesSoFar
    IN  /\ \A i, j \in 1..Len(ms) :
              i < j => StageOf(ms[i].match_type) <= StageOf(ms[j].match_type)
        /\ \A i \in 1..Len(ms) :
              ms[i].match_type # "exact" =>
                  /\ full_id(ms[i].method_t) \notin KeysT1
                  /\ full_id(ms[i].method_t1) \notin KeysT
                  /\ full_id(ms[i].method_t) # full_id(ms[i].method_t1)
        /\ \A i \in 1..Len(ms) :
              ms[i].match_type = "signature_changed" =>
                  signature(ms[i].method_t) # signature(ms[i].method_t1)
        /\ \A i, j \in 1..Len(ms) :
              (ms[i].match_type \in SimilarityTypes /\ ms[j].match_type = "token_hash") =>
                  /\ full_id(ms[i].method_t) # full_id(ms[j].method_t)
                  /\ full_id(ms[i].method_t1) # full_id(ms[j].method_t1)

\* C4 witness: an exact match, then a signature_changed match of stage 3
\* between two methods with the same tokens.
C4_Witness ==
    /\ Done
    /\ Len(all_matches) = 2
    /\ all_matches[1].match_type = "exact"
    /\ all_matches[2].match_type = "signature_changed"
    /\ all_matches[1].method_t.token_sequence = all_matches[2].method_t1.token_sequence

\* The scenario of C5: foo of x.c with tokens 1..6 in snapshot t, bar of x.c
\* with the same tokens in snapshot t+1, similarity matching enabled.
C5_Scenario ==
    /\ use_similarity
    /\ Len(snapshot_t) = 1 /\ Len(snapshot_t1) = 1
    /\ snapshot_t[1].method_name = "foo" /\ snapshot_t[1].file_path = "x.c"
    /\ snapshot_t1[1].method_name = "bar" /\ snapshot_t1[1].file_path = "x.c"
    /\ snapshot_t[1].token_sequence = Present(<<1, 2, 3, 4, 5, 6>>)
    /\ snapshot_t1[1].token_sequence = Present(<<1, 2, 3, 4, 5, 6>>)

\* The two records of the scenario carry the same non-empty token_hash.
C5_SameHash ==
    /\ snapshot_t[1].token_hash # ""
    /\ snapshot_t[1].token_hash = snapshot_t1[1].token_hash

\* C5 as stated: the scenario ends with exactly one match, of type renamed,
\* and nothing added or deleted.
C5_Original ==
    (Done /\ C5_Scenario) =>
        /\ Len(all_matches) = 1
        /\ all_matches[1].match_type = "renamed"
        /\ added_ids = {} /\ deleted_ids = {}

\* C5 amended: the scenario (thresholds at most 100) ends with exactly one
\* match and nothing added or deleted; the match is of type token_hash when
\* the two records carry the same non-empty token_hash, and of type renamed
\* with similarity 1.0 when they do not.
C5_RenamedUnlessSameHash ==
    (Done /\ C5_Scenario) =>
        /\ Len(all_matches) = 1
        /\ all_matches[1].method_t = snapshot_t[1]
        /\ all_matches[1].method_t1 = snapshot_t1[1]
        /\ all_matches[1].similarity = 100
        /\ all_matches[1].match_type =
              IF C5_SameHash THEN "token_hash" ELSE "renamed"
        /\ added_ids = {} /\ deleted_ids = {}

\* C5 witness: the scenario with no token_hash on the records ended with the
\* renamed match.
C5_Witness ==
    /\ Done
    /\ C5_Scenario
    /\ snapshot_t[1].token_hash = ""
    /\ Len(all_matches) = 1
    /\ all_matches[1].match_type = "renamed"

\* The non-empty token_hash values of a snapshot.
HashesOf(snapshot) ==
    {snapshot[i].token_hash : i \in 1..Len(snapshot)} \ {""}

\* C6 as stated: with disjoint key sets and similarity matching disabled,
\* there is no match, everything of t+1 is added and everything of t deleted.
C6_Original ==
    (Done /\ ~use_similarity /\ KeysT \cap KeysT1 = {}) =>
        /\ all_matches = <<>>
        /\ added_ids = KeysT1
        /\ deleted_ids = KeysT

\* C6 amended: with disjoint key sets, no non-empty token_hash present in
\* both snapshots, and similarity matching disabled, there is no match,
\* everything of t+1 is added and everything of t deleted.
C6_AddedDeletedWithoutSharedHash ==
    (/\ Done
     /\ ~use_similarity
     /\ KeysT \cap KeysT1 = {}
     /\ HashesOf(snapshot_t) \cap HashesOf(snapshot_t1) = {}) =>
        /\ all_matches = <<>>
        /\ added_ids = KeysT1
        /\ deleted_ids = KeysT

\* C6 witness: two full snapshots with disjoint keys, hashes on both sides
\* but none shared, and a method without hash on both sides: no match.
C6_Witness ==
    /\ Done
    /\ ~use_similarity
    /\ Len(snapshot_t) = 2 /\ Len(snapshot_t1) = 2
    /\ KeysT \cap KeysT1 = {}
    /\ HashesOf(snapshot_t) = {"h1"}
    /\ HashesOf(snapshot_t1) = {"h2"}
    /\ \E i \in 1..2 : snapshot_t[i].token_hash = ""
    /\ \E i \in 1..2 : snapshot_t1[i].token_hash = ""
    /\ all_matches = <<>>
    /\ Cardinality(added_ids) = 2
    /\ Cardinality(deleted_ids) = 2

\* The scores of before method m against candidate j of methods_t1.
NgramOf(m, j) ==
    calc_ngram_similarity(m.token_sequence[1], methods_t1[j].token_sequence[1],
                          TrackerGramSize)
LcsOf(m, j) ==
    calc_lcs_similarity(m.token_sequence[1], methods_t1[j].token_sequence[1])

\* The candidates unclaimed when the last pass of the outer loop began.
Unclaimed(scan) ==
    {j \in 1..Len(methods_t1) : full_id(methods_t1[j]) \notin scan.claimed_t1}

\* The unclaimed candidates that pass both tests.
Passing(scan) ==
    {j \in Unclaimed(scan) :
        /\ NgramOf(scan.method_t, j) >= ngram_threshold
        /\ LcsOf(scan.method_t, j) >= lcs_threshold}

\* C10: for each before record processed in stage 3, the committed after
\* record was unclaimed, passes both thresholds, has the maximal LCS
\* similarity among the unclaimed candidates that pass both, and is the
\* first of the after list with that score; the match committed is the one
\* of that pair.  If no unclaimed candidate passes both tests, none is
\* committed for that before record.
C10_BestCandidate ==
    (pc = "sim_loop" /\ last_scan # Absent) =>
        LET scan == last_scan[1]
            committed ==
                {i \in 1..Len(sim_matches) :
                    full_id(sim_matches[i].method_t) = full_id(scan.method_t)}
        IN  /\ Passing(scan) = {} =>
                (scan.best_match = Absent /\ committed = {})
            /\ scan.best_match = Absent => committed = {}
            /\ scan.best_match # Absent =>
                \E j \in Passing(scan) :
                    /\ methods_t1[j] = scan.best_match[1].method_t1
                    /\ scan.best_match[1].lcs_sim = LcsOf(scan.method_t, j)
                    /\ \A other \in Passing(scan) :
                          /\ LcsOf(scan.method_t, other) <= LcsOf(scan.method_t, j)
                          /\ LcsOf(scan.method_t, other) = LcsOf(scan.method_t, j)
                                => j <= other
                    /\ committed = {Len(sim_matches)}
                    /\ sim_matches[Len(sim_matches)].method_t = scan.method_t
                    /\ sim_matches[Len(sim_matches)].method_t1 = methods_t1[j]
                    /\ sim_matches[Len(sim_matches)].similarity = LcsOf(scan.method_t, j)

\* C10 witness: two unclaimed candidates passed both tests with the same
\* score, and the first of the after list was committed.
C10_Witness ==
    /\ pc = "sim_loop"
    /\ last_scan # Absent
    /\ Unclaimed(last_scan[1]) = {1, 2}
    /\ Passing(last_scan[1]) = {1, 2}
    /\ LcsOf(last_scan[1].method_t, 1) = LcsOf(last_scan[1].method_t, 2)
    /\ last_scan[1].best_match # Absent
    /\ last_scan[1].best_match[1].method_t1 = methods_t1[1]
    /\ sim_matches[Len(sim_matches)].method_t1 = methods_t1[1]

\* ------------------------------------------------------------------------
\* Properties of the similarity stage (under SpecScores)
\* ------------------------------------------------------------------------

SamePath(m) == m.method_t.file_path = m.method_t1.file_path
SameName(m) == m.method_t.method_name = m.method_t1.method_name

\* The type the classification table gives a stage 3 match with score s
\* (in percent).
TableType(m) ==
    IF SamePath(m) /\ SameName(m) THEN "signature_changed"
    ELSE IF SamePath(m) /\ m.similarity >= 90 THEN "renamed"
    ELSE IF SamePath(m) THEN "refactored"
    ELSE IF m.similarity >= 90 THEN "moved"
    ELSE "refactored"

\* C11: every match committed by stage 3 has the type of the table:
\* signature_changed for the same path and name whatever the score, renamed
\* for the same path, another name and a score of at least 0.90, moved for
\* another path and a score of at least 0.90, refactored below 0.90; stage 3
\* produces no other type, a pair with different paths is never typed
\* signature_changed, and analyze_changes returns these matches unchanged.
C11_Classification ==
    /\ \A i \in 1..Len(sim_matches) :
          /\ sim_matches[i].match_type \in SimilarityTypes
          /\ sim_matches[i].match_type = TableType(sim_matches[i])
          /\ ~SamePath(sim_matches[i]) =>
                sim_matches[i].match_type # "signature_changed"
    /\ Done =>
          \A i \in MatchIndices :
              \/ all_matches[i].match_type \in {"exact", "token_hash"}
              \/ \E k \in 1..Len(sim_matches) : sim_matches[k] = all_matches[i]

\* C11 witness: two stage 3 matches were returned, one of two methods with
\* the same name in different files that scored exactly 0.90, typed moved,
\* and one typed refactored with a score of 0.80.
C11_Witness ==
    /\ Done
    /\ \E i, j \in MatchIndices :
          /\ ~SamePath(all_matches[i]) /\ SameName(all_matches[i])
          /\ all_matches[i].similarity = 90
          /\ all_matches[i].match_type = "moved"
          /\ all_matches[j].similarity = 80
          /\ all_matches[j].match_type = "refactored"

\* ------------------------------------------------------------------------
\* Insertion order of the snapshots (under Spec)
\* ------------------------------------------------------------------------

\* The snapshots with the records of the given one, in every insertion order.
Reorderings(snapshot) ==
    LET n == Len(snapshot)
        orders == {p \in [1..n -> 1..n] : \A i, j \in 1..n : p[i] = p[j] => i = j}
    IN  {[i \in 1..n |-> snapshot[p[i]]] : p \in orders}

\* What analyze_changes returns, the list of matches taken as a set.
ResultSet(result) ==
    [matches |-> {result.matches[i] : i \in 1..Len(result.matches)},
     added_ids |-> result.added_ids,
     deleted_ids |-> result.deleted_ids]

\* The call that ran step by step returned what analyze_changes gives.
ReturnedByCall ==
    [matches |-> all_matches, added_ids |-> added_ids, deleted_ids |-> deleted_ids]

\* C12: stage 3 processes the before records in a fixed order (ascending
\* identity key), so analyze_changes returns the same matches, added set and
\* deleted set for two snapshots with the same records whatever order the
\* records were inserted in.  Stated where the order of the before records
\* in stage 3 alone decides: similarity matching is enabled, no token_hash
\* is present in both snapshots, and only snapshot_t is reordered.
C12_OrderIndependent ==
    (/\ Done
     /\ use_similarity
     /\ HashesOf(snapshot_t) \cap HashesOf(snapshot_t1) = {}) =>
        \A s_t \in Reorderings(snapshot_t) :
            ResultSet(analyze_changes(s_t, snapshot_t1, use_similarity,
                                      ngram_threshold, lcs_threshold))
                = ResultSet(ReturnedByCall)

\* ------------------------------------------------------------------------
\* The content-hash stage (under Spec)
\* ------------------------------------------------------------------------

\* The records of a snapshot left unmatched by the exact stage, in the
\* iteration order of the snapshot.
ExactUnmatched(snapshot, other) ==
    SelectSeq(snapshot, LAMBDA m : full_id(m) \notin snapshot_keys(other))

\* Those of them with content hash h, in the same order.
WithHash(methods, h) == SelectSeq(methods, LAMBDA m : m.token_hash = h)

\* The matches of the given type returned so far, in list order.
MatchesOfType(match_type) ==
    SelectSeq(MatchesSoFar, LAMBDA m : m.match_type = match_type)

\* The content hashes present on both sides after the exact stage.
SharedHashes ==
    HashesOf(ExactUnmatched(snapshot_t, snapshot_t1))
        \cap HashesOf(ExactUnmatched(snapshot_t1, snapshot_t))

\* C13: once the content-hash stage has run, for every content hash h (a
\* non-empty token_hash) present on both sides among the records the exact
\* stage left unmatched, there are exactly min(number of before records with
\* h, number of after records with h) token_hash matches of h, the k-th
\* pairing the k-th before record with the k-th after record with h in
\* snapshot order, with similarity 1.0; every token_hash match is one of
\* these, and the surplus records are in no token_hash match.
C13_ContentHashPairs ==
    pc \notin {"exact", "token_hash"} =>
        LET before == ExactUnmatched(snapshot_t, snapshot_t1)
            after == ExactUnmatched(snapshot_t1, snapshot_t)
            token_matches == MatchesOfType("token_hash")
        IN  /\ \A h \in SharedHashes :
                LET of_h == SelectSeq(token_matches,
                                      LAMBDA m : m.method_t.token_hash = h)
                    pairs == Min(Len(WithHash(before, h)), Len(WithHash(after, h)))
                IN  /\ Len(of_h) = pairs
                    /\ \A k \in 1..pairs :
                          of_h[k] = MethodMatch(WithHash(before, h)[k],
                                                WithHash(after, h)[k],
                                                "token_hash", 100)
                    /\ \A k \in (pairs + 1)..Len(WithHash(before, h)) :
                          full_id(WithHash(before, h)[k]) \notin ids_t(token_matches)
                    /\ \A k \in (pairs + 1)..Len(WithHash(after, h)) :
                          full_id(WithHash(after, h)[k]) \notin ids_t1(token_matches)
            /\ \A i \in 1..Len(token_matches) :
                  /\ token_matches[i].method_t.token_hash \in SharedHashes
                  /\ token_matches[i].method_t.token_hash
                        = token_matches[i].method_t1.token_hash

\* C13 witness: two before records and two after records with the same hash
\* and pairwise different keys were paired first with first and second with
\* second.
C13_Witness ==
    /\ Done
    /\ Len(snapshot_t) = 2 /\ Len(snapshot_t1) = 2
    /\ KeysT \cap KeysT1 = {}
    /\ \A k \in 1..2 : snapshot_t[k].token_hash = "h1" /\ snapshot_t1[k].token_hash = "h1"
    /\ all_matches = <<MethodMatch(snapshot_t[1], snapshot_t1[1], "token_hash", 100),
                       MethodMatch(snapshot_t[2], snapshot_t1[2], "token_hash", 100)>>

\* ------------------------------------------------------------------------
\* The similarity formulas (under SpecSim)
\* ------------------------------------------------------------------------

\* ngrams(x): the distinct windows of length g of x, as token tuples.
Windows(x, g) ==
    IF Len(x) < g THEN {} ELSE {Slice(x, i, g) : i \in 0..(Len(x) - g)}

\* |ngrams(a) \cap ngrams(b)| / min(|ngrams(a)|, |ngrams(b)|) in percent,
\* 0 when either set is empty.
WindowOverlap(a, b, g) ==
    IF Windows(a, g) = {} \/ Windows(b, g) = {}
    THEN 0
    ELSE (Cardinality(Windows(a, g) \cap Windows(b, g)) * 100)
             \div Min(Cardinality(Windows(a, g)), Cardinality(Windows(b, g)))

\* C14: calc_ngram_similarity(a, b) is the overlap of the sets of distinct
\* windows of length gram_size of a and b divided by the size of the smaller
\* set, and 0 when either set is empty.
C14_NgramFormula ==
    SimDone =>
        /\ ngram_ab = Present(WindowOverlap(tokens_a, tokens_b, gram_size))
        /\ ngram_ba = Present(WindowOverlap(tokens_b, tokens_a, gram_size))

\* a[i..] is a subsequence of b[j..]: its tokens occur in b in order.
RECURSIVE SubsequenceFrom(_, _, _, _)
SubsequenceFrom(a, b, i, j) ==
    IF i > Len(a) THEN TRUE
    ELSE IF j > Len(b) THEN FALSE
    ELSE IF a[i] = b[j] THEN SubsequenceFrom(a, b, i + 1, j + 1)
    ELSE SubsequenceFrom(a, b, i, j + 1)

IsSubsequence(a, b) == SubsequenceFrom(a, b, 1, 1)

TokensOf(a) == {a[i] : i \in 1..Len(a)}

\* lcs_length(a, b) / min(len(a), len(b)) in percent, 0 when either is empty.
LcsRatio(a, b) ==
    IF a = <<>> \/ b = <<>>
    THEN 0
    ELSE (LcsLength(a, b) * 100) \div Min(Len(a), Len(b))

\* C15: calc_lcs_similarity(a, b) is the LCS length of a and b divided by
\* the length of the shorter, and 0 when either sequence is empty; two
\* non-empty sequences with no token in common score 0, and when the
\* shorter of two non-empty sequences is a subsequence of the longer the
\* score is the maximum, 1.0.
C15_LcsFormula ==
    SimDone =>
        /\ lcs_ab = Present(LcsRatio(tokens_a, tokens_b))
        /\ lcs_ba = Present(LcsRatio(tokens_b, tokens_a))
        /\ (tokens_a = <<>> \/ tokens_b = <<>>) => lcs_ab = Present(0)
        /\ TokensOf(tokens_a) \cap TokensOf(tokens_b) = {} => lcs_ab = Present(0)
        /\ (/\ tokens_a # <<>>
            /\ Len(tokens_a) <= Len(tokens_b)
            /\ IsSubsequence(tokens_a, tokens_b))
              => (lcs_ab = Present(100) /\ lcs_ba = Present(100))

\* C15 witness: a sequence of two tokens that is a subsequence of a sequence
\* of three without being a substring of it scored the maximum.
C15_Witness ==
    /\ SimDone
    /\ Len(tokens_a) = 2 /\ Len(tokens_b) = 3
    /\ tokens_a = <<tokens_b[1], tokens_b[3]>>
    /\ tokens_b[2] \notin TokensOf(tokens_a)
    /\ hs_len = Present(2)
    /\ lcs_ab = Present(100)

\* ------------------------------------------------------------------------
\* Similarity matching disabled (under Spec)
\* ------------------------------------------------------------------------

\* C17: with use_similarity false, stage 3 is skipped: analyze_changes never
\* enters the loop of find_similarity_matches and scans no candidate, every
\* match it returns is of type exact or token_hash, and
\* find_similarity_matches returns the empty list when called on the
\* unmatched methods or on the whole snapshots.
C17_SimilarityDisabled ==
    ~use_similarity =>
        /\ pc # "sim_loop"
        /\ last_scan = Absent
        /\ sim_matches = <<>> /\ methods_t = <<>> /\ methods_t1 = <<>>
        /\ \A i \in MatchIndices :
              all_matches[i].match_type \in {"exact", "token_hash"}
        /\ find_similarity_matches(unmatched_t, unmatched_t1, use_similarity,
                                   ngram_threshold, lcs_threshold) = <<>>
        /\ find_similarity_matches(snapshot_t, snapshot_t1, use_similarity,
                                   ngram_threshold, lcs_threshold) = <<>>

\* C17 witness: with use_similarity false, analyze_changes returned an exact
\* match only, leaving a before and an after method with the same six tokens
\* and no hash, a pair stage 3 would match, deleted and added.
C17_Witness ==
    /\ Done
    /\ ~use_similarity
    /\ Len(all_matches) = 1 /\ all_matches[1].match_type = "exact"
    /\ Len(unmatched_t) = 1 /\ Len(unmatched_t1) = 1
    /\ unmatched_t[1].token_sequence = Present(<<1, 2, 3, 4, 5, 6>>)
    /\ unmatched_t1[1].token_sequence = Present(<<1, 2, 3, 4, 5, 6>>)
    /\ unmatched_t[1].token_hash = ""
    /\ deleted_ids = {full_id(unmatched_t[1])}
    /\ added_ids = {full_id(unmatched_t1[1])}

\* ------------------------------------------------------------------------
\* Methods with few or no tokens (under SpecEdge)
\* ------------------------------------------------------------------------

\* The records of both snapshots.
AllRecords ==
    {snapshot_t[i] : i \in 1..Len(snapshot_t)}
        \cup {snapshot_t1[i] : i \in 1..Len(snapshot_t1)}

\* A record with tokens, but fewer than the gram size of the tracker.
ShortOfGram(m) == has_tokens(m) /\ Len(m.token_sequence[1]) < TrackerGramSize

\* Other sequences to compare with: all of up to six tokens over two codes.
OtherSequences == SeqsUpTo({1, 2}, TrackerGramSize + 1)

\* The matches of stage 3 so far.
SimilarityMatches ==
    SelectSeq(MatchesSoFar, LAMBDA m : m.match_type \in SimilarityTypes)

\* C16: a token sequence with fewer than gram_size tokens (four tokens for
\* the gram size of 5) has an empty n-gram set and calc_ngram_similarity
\* returns 0 for it against every other sequence, in both argument orders
\* (the token sequences of the other records and, evaluated once per before
\* snapshot, all sequences of up to six tokens over two codes); so with ngram_threshold > 0 no such record is in a match of stage 3.
C16_ShortSequence ==
    /\ \A m \in AllRecords :
          ShortOfGram(m) =>
              /\ create_ngrams(m.token_sequence[1], TrackerGramSize) = {}
              /\ \A other \in AllRecords :
                    has_tokens(other) =>
                        /\ calc_ngram_similarity(m.token_sequence[1],
                               other.token_sequence[1], TrackerGramSize) = 0
                        /\ calc_ngram_similarity(other.token_sequence[1],
                               m.token_sequence[1], TrackerGramSize) = 0
    /\ (pc = "exact" /\ snapshot_t1 = <<>>) =>
          \A m \in AllRecords, other \in OtherSequences :
              ShortOfGram(m) =>
                  /\ calc_ngram_similarity(m.token_sequence[1], other,
                                           TrackerGramSize) = 0
                  /\ calc_ngram_similarity(other, m.token_sequence[1],
                                           TrackerGramSize) = 0
    /\ ngram_threshold > 0 =>
          \A i \in 1..Len(SimilarityMatches) :
              /\ ~ShortOfGram(SimilarityMatches[i].method_t)
              /\ ~ShortOfGram(SimilarityMatches[i].method_t1)

\* C16 witness: with the n-gram threshold of 10 percent, a before method of
\* four tokens and an after method of six tokens containing them (LCS
\* similarity 100 percent) went through stage 3 and ended deleted and added.
C16_Witness ==
    /\ Done
    /\ use_similarity /\ ngram_threshold > 0
    /\ Len(snapshot_t) = 1 /\ Len(snapshot_t1) = 1
    /\ ShortOfGram(snapshot_t[1])
    /\ has_tokens(snapshot_t1[1]) /\ ~ShortOfGram(snapshot_t1[1])
    /\ calc_lcs_similarity(snapshot_t[1].token_sequence[1],
                           snapshot_t1[1].token_sequence[1]) = 100
    /\ last_scan # Absent /\ last_scan[1].best_match = Absent
    /\ all_matches = <<>>
    /\ deleted_ids = KeysT /\ added_ids = KeysT1

\* The record is one side of a match of the given type returned so far.
InMatchOfType(m, match_type) ==
    \E i \in 1..Len(MatchesSoFar) :
        /\ MatchesSoFar[i].match_type = match_type
        /\ (MatchesSoFar[i].method_t = m \/ MatchesSoFar[i].method_t1 = m)

\* C18: a record whose token_sequence is None or empty is never a side of a
\* stage 3 match; it is still paired by the exact stage when its key is in
\* both snapshots, and by the content-hash stage when it is the first
\* exact-unmatched record of its side with a hash present on both sides; and
\* when analyze_changes returns, it is either in a match or in deleted_ids
\* (before side) or added_ids (after side).
C18_NoTokens ==
    /\ \A i \in 1..Len(SimilarityMatches) :
          /\ has_tokens(SimilarityMatches[i].method_t)
          /\ has_tokens(SimilarityMatches[i].method_t1)
    /\ pc # "exact" =>
          \A m \in AllRecords :
              (~has_tokens(m) /\ full_id(m) \in KeysT \cap KeysT1)
                  => InMatchOfType(m, "exact")
    /\ pc \notin {"exact", "token_hash"} =>
          \A h \in SharedHashes :
              LET first_t == WithHash(ExactUnmatched(snapshot_t, snapshot_t1), h)[1]
                  first_t1 == WithHash(ExactUnmatched(snapshot_t1, snapshot_t), h)[1]
              IN  (~has_tokens(first_t) \/ ~has_tokens(first_t1)) =>
                      \E i \in 1..Len(MatchesSoFar) :
                          MatchesSoFar[i] =
                              MethodMatch(first_t, first_t1, "token_hash", 100)
    /\ Done =>
          /\ \A k \in 1..Len(snapshot_t) :
                ~has_tokens(snapshot_t[k]) =>
                    (full_id(snapshot_t[k]) \in deleted_ids)
                        # (full_id(snapshot_t[k]) \in ids_t(all_matches))
          /\ \A k \in 1..Len(snapshot_t1) :
                ~has_tokens(snapshot_t1[k]) =>
                    (full_id(snapshot_t1[k]) \in added_ids)
                        # (full_id(snapshot_t1[k]) \in ids_t1(all_matches))

\* C18 witness: with similarity matching enabled, four records without
\* tokens: two were paired by the exact stage and two by the content-hash
\* stage, none by stage 3.
C18_Witness ==
    /\ Done
    /\ use_similarity
    /\ Len(snapshot_t) = 2 /\ Len(snapshot_t1) = 2
    /\ \A m \in AllRecords : ~has_tokens(m)
    /\ Len(all_matches) = 2
    /\ all_matches[1].match_type = "exact"
    /\ all_matches[2].match_type = "token_hash"

\* ------------------------------------------------------------------------
\* Properties of track_methods (under SpecTrack)
\* ------------------------------------------------------------------------

TrackDone == track_pc = "done"

\* The files parsed so far.
ParsedFiles ==
    IF track_pc = "loop" THEN curr_index - 1
    ELSE IF track_pc = "done" THEN Len(code_block_files)
    ELSE 0

\* C19: track_methods calls analyze_changes exactly once for each pair of
\* consecutive snapshots (Snapshot[i], Snapshot[i+1]), in snapshot order, and
\* writes one transition per call in that order: the k-th call and the k-th
\* row are those of the k-th and (k+1)-th file, so every inner snapshot is
\* the after side of one transition and the before side of the next; N files
\* give N - 1 transitions, and fewer than 2 files give none and no call.
C19_ConsecutivePairs ==
    /\ Len(summary_rows) = Len(analyze_calls)
    /\ Len(analyze_calls) = Max(0, ParsedFiles - 1)
    /\ \A k \in 1..Len(analyze_calls) :
          /\ analyze_calls[k].snapshot_t = code_block_files[k]
          /\ analyze_calls[k].snapshot_t1 = code_block_files[k + 1]
          /\ summary_rows[k].snapshot_t = k
          /\ summary_rows[k].snapshot_t1 = k + 1
          /\ summary_rows[k].total_t = Len(code_block_files[k])
          /\ summary_rows[k].total_t1 = Len(code_block_files[k + 1])
    /\ TrackDone =>
          Len(summary_rows) =
              IF Len(code_block_files) < 2 THEN 0 ELSE Len(code_block_files) - 1
    /\ Len(code_block_files) < 2 =>
          (analyze_calls = <<>> /\ summary_rows = <<>> /\ track_pc # "loop")

\* C19 witness: three files with snapshots of different sizes gave two
\* transitions, the second snapshot being the after side of the first and
\* the before side of the second.
C19_Witness ==
    /\ TrackDone
    /\ Len(code_block_files) = 3
    /\ Len(code_block_files[1]) = 0
    /\ Len(code_block_files[2]) = 2
    /\ Len(code_block_files[3]) = 1
    /\ Len(summary_rows) = 2
    /\ summary_rows[1].total_t1 = 2 /\ summary_rows[2].total_t = 2
    /\ analyze_calls[1].snapshot_t1 = analyze_calls[2].snapshot_t

\* The number of matches a summary row reports, over its six columns.
RowMatches(row) ==
    row.exact_matches + row.token_hash_matches + row.renamed + row.moved
        + row.signature_changed + row.refactored

\* The matches of the given type in what analyze_changes returned.
ReturnedOfType(result, match_type) ==
    Cardinality({i \in 1..Len(result.matches) :
                    result.matches[i].match_type = match_type})

\* C20: in every transition the six counts of matches by type are those of
\* the matches analyze_changes returned and sum to their number; that sum
\* plus deleted_methods is total_t, the size of the before snapshot, and
\* that sum plus added_methods is total_t1, the size of the after snapshot.
C20_Tallies ==
    \A k \in 1..Len(summary_rows) :
        LET row == summary_rows[k]
            result == analyze_calls[k].result
        IN  /\ row.exact_matches = ReturnedOfType(result, "exact")
            /\ row.token_hash_matches = ReturnedOfType(result, "token_hash")
            /\ row.renamed = ReturnedOfType(result, "renamed")
            /\ row.moved = ReturnedOfType(result, "moved")
            /\ row.signature_changed = ReturnedOfType(result, "signature_changed")
            /\ row.refactored = ReturnedOfType(result, "refactored")
            /\ RowMatches(row) = Len(result.matches)
            /\ row.added_methods = Cardinality(result.added_ids)
            /\ row.deleted_methods = Cardinality(result.deleted_ids)
            /\ RowMatches(row) + row.deleted_methods = row.total_t
            /\ RowMatches(row) + row.added_methods = row.total_t1
            /\ row.total_t = Len(analyze_calls[k].snapshot_t)
            /\ row.total_t1 = Len(analyze_calls[k].snapshot_t1)

\* C20 witness: a transition with two exact matches, followed by one with a
\* token_hash match, a deleted method and no added method.
C20_Witness ==
    /\ TrackDone
    /\ Len(summary_rows) = 2
    /\ summary_rows[1].exact_matches = 2
    /\ summary_rows[1].total_t = 2 /\ summary_rows[1].total_t1 = 2
    /\ summary_rows[2].token_hash_matches = 1
    /\ summary_rows[2].deleted_methods = 1
    /\ summary_rows[2].added_methods = 0
    /\ summary_rows[2].total_t = 2 /\ summary_rows[2].total_t1 = 1

\* C21: the matches, added ids and deleted ids returned for the pair of
\* files k and k + 1 are those analyze_changes gives for the two snapshots
\* as parsed and the configuration alone, whichever transitions the
\* tracker computed before and in whichever order, on the objects those
\* calls left behind.
C21_TransitionsIndependent ==
    \A i \in 1..Len(transitions) :
        LET k == transitions[i].pair
        IN  transitions[i].result =
                analyze_changes(code_block_files[k], code_block_files[k + 1],
                                use_similarity, ngram_threshold, lcs_threshold)

\* C21 witness: the transition of files 2 and 3 was computed before the
\* one of files 1 and 2, both paired records by their hash, and a record
\* of file 2 is in a match of each.
C21_Witness ==
    /\ frame.pc = "idle"
    /\ Len(transitions) = 2
    /\ transitions[1].pair = 2 /\ transitions[2].pair = 1
    /\ \E i \in 1..Len(transitions[1].result.matches) :
          \E j \in 1..Len(transitions[2].result.matches) :
              /\ transitions[1].result.matches[i].method_t
                    = transitions[2].result.matches[j].method_t1
              /\ transitions[1].result.matches[i].match_type = "token_hash"
              /\ transitions[2].result.matches[j].match_type = "token_hash"

\* C22: at every step of every call of analyze_changes and after it, the
\* dict of each file holds the keys it was parsed with, mapped to the same
\* records; the lists find_token_hash_matches pops from are other objects.
C22_SnapshotsUnchanged ==
    \A k \in 1..Len(code_block_files) :
        /\ k <= Len(heap)
        /\ Len(heap[k]) = Len(code_block_files[k])
        /\ snapshot_keys(heap[k]) = snapshot_keys(code_block_files[k])
        /\ \A key \in snapshot_keys(code_block_files[k]) :
              snapshot_get(heap[k], key) = snapshot_get(code_block_files[k], key)

\* C22 witness: in the pairing loop of a call, the two candidates of the
\* hash have been popped from methods_t1, which is empty, and both are in
\* matches.
C22_Witness ==
    /\ PairingHash
    /\ has_hash(heap[frame.hash_to_methods_t1], current_hash)
    /\ heap[current_methods_t1] = <<>>
    /\ Len(heap[frame.matches]) = 2
    /\ Len(WithHash(heap[frame.snapshot_t1], current_hash)) = 2

\* ------------------------------------------------------------------------
\* analyze_changes with an LCS threshold of 0 (under SpecLow)
\* ------------------------------------------------------------------------

\* Contents: six tokens with and without a hash; <<7, 8>>, with no token of
\* the six (an LCS similarity of 0 percent); <<1, 7>>, with one token of
\* each of the others (an LCS similarity of 50 percent).
LowContents ==
    { [token_hash |-> "h1", token_sequence |-> Present(<<1, 2, 3, 4, 5, 6>>)],
      [token_hash |-> "",   token_sequence |-> Present(<<1, 2, 3, 4, 5, 6>>)],
      [token_hash |-> "",   token_sequence |-> Present(<<7, 8>>)],
      [token_hash |-> "",   token_sequence |-> Present(<<1, 7>>)] }

\* Similarity matching with no n-gram filter and an LCS threshold of 0 and
\* of 70, and with the default thresholds: the sequences of two tokens have
\* no 5-gram, so the default n-gram filter rejects every pair with one.
LowConfigs ==
    { [use_similarity |-> TRUE, ngram_threshold |-> 0,  lcs_threshold |-> 0],
      [use_similarity |-> TRUE, ngram_threshold |-> 0,  lcs_threshold |-> 70],
      [use_similarity |-> TRUE, ngram_threshold |-> 10, lcs_threshold |-> 70] }

InitLow == TrackerInit(IdsT, IdsT1, LowContents, LowConfigs)

SpecLow == InitLow /\ [][Next]_vars

\* C23: the similarity of a match (in percent) is between 0 and 100; it is
\* 100 for an exact and for a token_hash match; for a match of the
\* similarity stage it is at least lcs_threshold and greater than 0.
C23_SimilarityRange ==
    \A i \in MatchIndices :
        LET match == all_matches[i]
        IN  /\ match.similarity >= 0 /\ match.similarity <= 100
            /\ match.match_type \in {"exact", "token_hash"} => match.similarity = 100
            /\ match.match_type \in SimilarityTypes =>
                  /\ match.similarity >= lcs_threshold
                  /\ match.similarity > 0

\* C23 witness: with an LCS threshold of 0, analyze_changes has returned a
\* similarity match and has left unmatched a before and an after record
\* with tokens whose LCS similarity is 0.
C23_Witness ==
    /\ Done
    /\ lcs_threshold = 0
    /\ \E i \in MatchIndices : all_matches[i].match_type \in SimilarityTypes
    /\ \E i \in 1..Len(snapshot_t) : \E j \in 1..Len(snapshot_t1) :
          /\ full_id(snapshot_t[i]) \in deleted_ids
          /\ full_id(snapshot_t1[j]) \in added_ids
          /\ has_tokens(snapshot_t[i]) /\ has_tokens(snapshot_t1[j])
          /\ calc_lcs_similarity(snapshot_t[i].token_sequence[1],
                                 snapshot_t1[j].token_sequence[1]) = 0

\* ------------------------------------------------------------------------
\* The gram size of the calculator (under SpecGram)
\* ------------------------------------------------------------------------

\* C24: a gram_size below 1 is rejected when the calculator is configured:
\* no n-gram similarity of two non-empty sequences is ever computed with a
\* gram_size below 1.
C24_GramSizeValidated ==
    (ngram_ab # Absent /\ tokens_a # <<>> /\ tokens_b # <<>>) => gram_size >= 1

\* ------------------------------------------------------------------------
\* Properties of the clone pairs (under SpecClone)
\* ------------------------------------------------------------------------

CloneDone == clone_pc = "done"

\* The rows of the first k lines of the file that are given to
\* process_pair, in the order of the file: the lines that are not blank and
\* that parse_csv_line turns into a pair.
RowsProcessed(k) ==
    LET is_pair(line) ==
            /\ line # BlankLine
            /\ parse_csv_line(split_csv_line(line)).outcome = "pair"
        rows == SelectSeq(SubSeq(csv_lines, 1, k), is_pair)
    IN  [i \in 1..Len(rows) |-> split_csv_line(rows[i])]

\* The two blocks a row of twelve columns is written with.
RowBlock1(row) == CodeBlock(row, 0)[1]
RowBlock2(row) == CodeBlock(row, 6)[1]

\* C25: for the two blocks A and B of a row given to process_pair,
\* CodeClonePair(A, B) and
\* CodeClonePair(B, A) have the same blocks and the same hash, and the pair
\* holds both A and B, block1 being the smaller and block2 the greater.
C25_Normalization ==
    \A k \in 1..Len(processed_pairs) :
        LET row == RowsProcessed(Len(csv_lines))[k]
            pair == processed_pairs[k].pair
            swapped == CodeClonePair(RowBlock2(row), RowBlock1(row))
        IN  /\ pair = swapped
            /\ get_hash(pair) = get_hash(swapped)
            /\ {pair.block1, pair.block2} = {RowBlock1(row), RowBlock2(row)}
            /\ ~tuple_gt(field_tuple(pair.block1), field_tuple(pair.block2), 1)

\* The hashes of the first k processed pairs.
HashesSeen(k) == {get_hash(processed_pairs[i].pair) : i \in 1..k}

\* C26: processed_pairs has one entry per call of process_pair (one per
\* line of the file that is a row of two blocks), in call order; two entries have the same pair_id exactly when their pairs have
\* the same hash; the ids are 1..K in order of first appearance, K being
\* the number of distinct hashes seen, and next_id = K + 1;
\* is_first_occurrence is true for the earliest entry of each id and for no
\* other.
C26_PairIds ==
    LET n == Len(processed_pairs)
        K == Cardinality(HashesSeen(n))
        rows == RowsProcessed(line_num - 1)
    IN  /\ clone_pc # "idle" => n = Len(rows)
        /\ clone_pc # "idle" =>
              \A k \in 1..n :
                  processed_pairs[k].pair =
                      CodeClonePair(RowBlock1(rows[k]), RowBlock2(rows[k]))
        /\ \A k, l \in 1..n :
              processed_pairs[k].pair_id = processed_pairs[l].pair_id
                  <=> get_hash(processed_pairs[k].pair) = get_hash(processed_pairs[l].pair)
        /\ {processed_pairs[k].pair_id : k \in 1..n} = 1..K
        /\ next_id = K + 1
        /\ \A k \in 1..n :
              /\ processed_pairs[k].is_first
                    <=> get_hash(processed_pairs[k].pair) \notin HashesSeen(k - 1)
              /\ processed_pairs[k].is_first
                    => processed_pairs[k].pair_id = Cardinality(HashesSeen(k - 1)) + 1
        /\ pair_to_id =
              {<<get_hash(processed_pairs[k].pair), processed_pairs[k].pair_id>> : k \in 1..n}

\* C26 witness: three pairs processed, the third with the hash of the
\* first and the second with another: ids 1, 2, 1 and next_id = 3.
C26_Witness ==
    /\ CloneDone
    /\ Len(processed_pairs) = 3
    /\ processed_pairs[1].pair_id = 1 /\ processed_pairs[1].is_first
    /\ processed_pairs[2].pair_id = 2 /\ processed_pairs[2].is_first
    /\ processed_pairs[3].pair_id = 1 /\ ~processed_pairs[3].is_first
    /\ next_id = 3
    /\ csv_lines[1] # csv_lines[3]

\* ------------------------------------------------------------------------
\* Maximality of the similarity stage (under SpecLow)
\* ------------------------------------------------------------------------

\* The records of a snapshot with tokens that no match holds.
LeftWithTokens(snapshot, matched) ==
    {i \in 1..Len(snapshot) :
        has_tokens(snapshot[i]) /\ full_id(snapshot[i]) \notin matched}

\* The pair passes the tests of the similarity stage.
PassesThresholds(method_t, method_t1) ==
    /\ calc_ngram_similarity(method_t.token_sequence[1],
                             method_t1.token_sequence[1],
                             TrackerGramSize) >= ngram_threshold
    /\ calc_lcs_similarity(method_t.token_sequence[1],
                           method_t1.token_sequence[1]) >= lcs_threshold
    /\ calc_lcs_similarity(method_t.token_sequence[1],
                           method_t1.token_sequence[1]) > 0

\* C27: when find_similarity_matches has returned, no before record and
\* after record, both with tokens and both unmatched, have an n-gram
\* similarity of at least ngram_threshold and an LCS similarity of at least
\* lcs_threshold and above 0.
C27_GreedyMaximal ==
    (pc \in {"residual", "done"} /\ use_similarity) =>
        \A i \in LeftWithTokens(snapshot_t, matched_t) :
            \A j \in LeftWithTokens(snapshot_t1, matched_t1) :
                ~PassesThresholds(snapshot_t[i], snapshot_t1[j])

\* C27 witness: find_similarity_matches has returned a match and has left
\* a before and an after record with tokens unmatched, their LCS similarity
\* being positive but below lcs_threshold.
C27_Witness ==
    /\ Done
    /\ use_similarity
    /\ \E k \in MatchIndices : all_matches[k].match_type \in SimilarityTypes
    /\ \E i \in LeftWithTokens(snapshot_t, matched_t) :
          \E j \in LeftWithTokens(snapshot_t1, matched_t1) :
              /\ calc_lcs_similarity(snapshot_t[i].token_sequence[1],
                                     snapshot_t1[j].token_sequence[1]) > 0
              /\ calc_lcs_similarity(snapshot_t[i].token_sequence[1],
                                     snapshot_t1[j].token_sequence[1]) < lcs_threshold

\* ------------------------------------------------------------------------
\* The threshold array of _hunt_szymanski_lcs (under SpecSim)
\* ------------------------------------------------------------------------

\* n of the running _hunt_szymanski_lcs(tokens_a, tokens_b).
HsN == Len(hs_shorter(tokens_a, tokens_b))

\* The number of finite entries of lcs beyond lcs[0].
FiniteEntries(lcs) == Cardinality({k \in 1..HsN : lcs[k] # Infinity})

\* lcs[0] = -1, a strictly increasing prefix of finite entries, and
\* infinity after it.
HsShape(lcs) ==
    /\ DOMAIN lcs = 0..HsN
    /\ lcs[0] = -1
    /\ \A k \in 1..HsN :
          /\ k <= FiniteEntries(lcs) => (lcs[k] # Infinity /\ lcs[k - 1] < lcs[k])
          /\ k > FiniteEntries(lcs) => lcs[k] = Infinity

\* The tokens of shorter processed so far, the one in progress included
\* once one of its positions has been visited.
TokensEntered == IF hs_j > 1 THEN Min(hs_i, HsN) ELSE hs_i - 1

\* C28: throughout _hunt_szymanski_lcs, lcs[0] = -1, the finite entries
\* are a strictly increasing prefix and the entries after it are infinity;
\* after i tokens of shorter at most i entries beyond lcs[0] are finite;
\* no step increases an entry.
C28_ThresholdArray ==
    /\ [](hs_lcs # Absent =>
            /\ HsShape(hs_lcs)
            /\ FiniteEntries(hs_lcs) <= TokensEntered)
    /\ [][(hs_lcs # Absent /\ hs_lcs' # Absent) =>
            \A k \in 0..HsN : hs_lcs'[k] <= hs_lcs[k]]_vars

\* C28 witness: the first of two tokens of shorter has been processed over
\* two positions or more, and lcs[1] is the last and smallest of them: the
\* entry was written and then lowered.
C28_Witness ==
    /\ sim_pc = "hs_loop"
    /\ HsN >= 2
    /\ hs_i = 1
    /\ Len(hs_current) >= 2
    /\ hs_j = Len(hs_current) + 1
    /\ hs_lcs[1] = hs_current[Len(hs_current)]
    /\ hs_lcs[2] = Infinity

\* C29: the binary search never returns left = n: at every position
\* visited, left + 1 is an index of lcs in 1..n, and the routine raises no
\* IndexError.
C29_SearchInBounds ==
    /\ ~hs_raised
    /\ (sim_pc = "hs_loop" /\ hs_i <= HsN /\ hs_j <= Len(hs_current)) =>
          LET left == hs_search(hs_lcs, hs_current[hs_j], 0, HsN)
          IN  /\ left < HsN
              /\ left + 1 \in 1..HsN
              /\ left + 1 \in DOMAIN hs_lcs

\* C29 witness: lcs[n] is already finite and a further position of the
\* last token is about to be searched.
C29_Witness ==
    /\ sim_pc = "hs_loop"
    /\ hs_i = HsN
    /\ hs_j > 1 /\ hs_j <= Len(hs_current)
    /\ hs_lcs[HsN] # Infinity
    /\ HsN >= 2

\* ------------------------------------------------------------------------
\* Records without content hash (under Spec)
\* ------------------------------------------------------------------------

\* The records with an empty token_hash that the exact stage left
\* unmatched.
EmptyHashed(snapshot, other) ==
    SelectSeq(ExactUnmatched(snapshot, other), LAMBDA m : m.token_hash = "")

\* C30: no token_hash match holds a record with an empty token_hash; the
\* records with an empty hash that the exact stage left unmatched reach the
\* similarity stage unmatched, and at the return each of them is in a
\* similarity match or in added_ids / deleted_ids.
C30_EmptyHashNotGrouped ==
    LET before == EmptyHashed(snapshot_t, snapshot_t1)
        after == EmptyHashed(snapshot_t1, snapshot_t)
        token_matches == MatchesOfType("token_hash")
    IN  /\ \A i \in 1..Len(token_matches) :
              /\ token_matches[i].method_t.token_hash # ""
              /\ token_matches[i].method_t1.token_hash # ""
        /\ pc = "similarity" =>
              /\ \A i \in 1..Len(before) :
                    /\ full_id(before[i]) \notin matched_t
                    /\ before[i] \in {unmatched_t[k] : k \in 1..Len(unmatched_t)}
              /\ \A j \in 1..Len(after) :
                    /\ full_id(after[j]) \notin matched_t1
                    /\ after[j] \in {unmatched_t1[k] : k \in 1..Len(unmatched_t1)}
        /\ Done =>
              /\ \A i \in 1..Len(before) :
                    \/ full_id(before[i]) \in deleted_ids
                    \/ \E k \in MatchIndices :
                          /\ all_matches[k].method_t = before[i]
                          /\ all_matches[k].match_type \in SimilarityTypes
              /\ \A j \in 1..Len(after) :
                    \/ full_id(after[j]) \in added_ids
                    \/ \E k \in MatchIndices :
                          /\ all_matches[k].method_t1 = after[j]
                          /\ all_matches[k].match_type \in SimilarityTypes

\* C30 witness: each snapshot holds two records with an empty hash and no
\* exact match; the content-hash stage has run on them and paired none: two
\* of them with the same tokens are matched by the similarity stage, the
\* two others, both without tokens, are deleted and added.
C30_Witness ==
    /\ Done
    /\ Len(EmptyHashed(snapshot_t, snapshot_t1)) = 2
    /\ Len(EmptyHashed(snapshot_t1, snapshot_t)) = 2
    /\ MatchesOfType("token_hash") = <<>>
    /\ Len(all_matches) = 1
    /\ all_matches[1].match_type \in SimilarityTypes
    /\ all_matches[1].method_t.token_sequence = all_matches[1].method_t1.token_sequence
    /\ \E i \in 1..2 : \E j \in 1..2 :
          /\ full_id(snapshot_t[i]) \in deleted_ids
          /\ full_id(snapshot_t1[j]) \in added_ids
          /\ snapshot_t[i].token_sequence = Absent
          /\ snapshot_t1[j].token_sequence = Absent

====
